---- MODULE Spec2Model ----
(***************************************************************************)
(* Batch translation pipeline of the Clean Data QGIS plugin.               *)
(*                                                                         *)
(*   Spec       TranslationTask.run (modules/translation.py) on small      *)
(*              layers, with every reply the task can get from its         *)
(*              service, run twice in succession on the same layer.        *)
(*   SpecBatch  the same task on large uniform layers with a service that  *)
(*              answers every batch in full (chunking and batching).       *)
(*   SpecCallback  the task of Spec, run once, with a progress callback    *)
(*              that may raise.                                            *)
(*   SpecLive   the task of Spec, run once, and translate_with_ollama,     *)
(*              under fairness (termination).                              *)
(*   SpecUtils, SpecAdapter, SpecParser, SpecManager  the translation      *)
(*              helpers, services, parsers and the tab that starts tasks.  *)
(*   SpecNull, SpecClean, SpecFind  the cleaning operations                *)
(*              (modules/cleaning.py).                                     *)
(*                                                                         *)
(* The layer (QgsVectorLayer) is the external Layer Store: feature ids are *)
(* 1..Len(source), getFeatures yields them in id order, an edit session    *)
(* buffers attribute changes until commitChanges or rollBack.              *)
(***************************************************************************)
EXTENDS Integers, Sequences, FiniteSets, TLC

\* ---------------------------------------------------------------- bounds
MaxFeatures == 3        \* features of a layer under Spec
MaxBatchSize == 2       \* requested batch_size under Spec: 1..MaxBatchSize
MaxRuns == 2            \* successive tasks on the same layer under Spec
MaxSnapshot == 27       \* features of a layer under SpecBatch
MaxBlank == 3           \* leading features with no source text under SpecBatch
MaxBatchRequest == 6    \* requested batch_size under SpecBatch
MaxUtilFeatures == 3    \* features of a layer given to translate_column
MaxOllamaTexts == 12    \* texts given to translate_with_ollama itself
MaxOllamaBatch == 5     \* batch_size given to translate_with_ollama itself
MaxAdapterTexts == 3    \* texts given to a service's translate
MaxAdapterBatch == 2    \* batch_size given to a service's translate
MaxItems == 3           \* items of a list in a response text
MaxExpected == 3        \* expected_count given to a parser
MaxRequests == 3        \* clicks on the Translate button
MaxTasks == 2           \* tasks handed to the task manager
MaxBatches == 2         \* batches of a task started by the manager
MaxNullFeatures == 50   \* features of a layer whose null values are counted
MaxOperations == 3      \* operations listed for clean_layer
MaxReplaced == 2        \* columns deleted, values replaced by one operation
MaxFindFeatures == 2    \* features of a layer given to find_and_replace_values
MaxRefFeatures == 1     \* features of its reference layer
MaxStringLen == 2       \* characters of a field value

\* ------------------------------------------------------ program constants
chunk_size == 25
batch_cap == 5
small_batch == 2
max_retries == 2
ollama_batch_size == 10
google_limit == 100
MaxThreshold == 100
pad_length == 8

\* ----------------------------------------------------------------- values
NULL == "NULL"          \* a NULL attribute (None / QVariant NULL)
NoChange == "NOCHANGE"  \* no pending change of a feature in the edit buffer
SourceValues == {NULL, "a", "s"}
TargetValues == {NULL, "old"}
ReplyValues == {"", "T"}    \* what a service returns for one text

Min(x, y) == IF x <= y THEN x ELSE y

\* str(v).strip() on the attribute values of the model
Strip(v) == IF v \in {NULL, "", " "} THEN "" ELSE v

\* bool(v): Python truth value of an attribute value or reply entry
Truthy(v) == v \notin {NULL, ""}

Ids(n) == [k \in 1..n |-> k]

Range(s) == {s[k] : k \in 1..Len(s)}

VARIABLES
    \* the layer
    hasSource,          \* the source field is a field of the layer
    source,             \* committed source field value of every feature
    hasTarget,          \* the target field is a committed field of the layer
    target,             \* committed target field value of every feature
    editing,            \* an edit session is open on the layer
    bufField,           \* the open session holds the uncommitted target field
    buffer,             \* the open session's pending target values
    \* TranslationTask: parameters
    batch_size,         \* self.batch_size
    skip_values,        \* self.skip_values
    \* TranslationTask: state
    pc,
    canceled,           \* isCanceled()
    feature_ids,        \* list(feature_map.keys())
    skipped_features,
    total_features,
    translated,         \* fids whose feature_map entry has translated = True
    translated_count,
    failed_features,
    exception,          \* self.exception ("none" for None)
    result,             \* what run returned ("none" while running)
    initial_count,
    chunk_start,
    i,                  \* offset of the current batch in its chunk
    batch_ids,          \* the batch handed to service.translate
    final_count,        \* layer.featureCount() after the commit (0: not read)
    report,             \* what finished(result) reported ("none" before it)
    progress,           \* what setProgress was last given, as the pair
                        \* <<numerator, denominator>> of the fraction
    \* history
    requested,          \* batch_size as given to TranslationTask(...)
    calls,              \* batches handed to the service in this run, in order
    target0,            \* committed target values when this run started
    hasTarget0,
    runs,               \* number of the run in progress
    populated,          \* fids whose target the previous run populated
    cancelPc,           \* pc at which cancellation was requested
    commitFailed,       \* the final commitChanges of this run returned False
    started,            \* edit sessions this run started and has not ended
    abandoned,          \* batches left behind after their call raised
    \* clean_data_utils.translate_column and its translate_with_* functions
    u_pc,
    u_service,          \* service of translate_column, "direct" for a call of
                        \* translate_with_ollama itself
    u_source,           \* source field value of every feature (0: no value)
    u_target,           \* new field value of every feature (<<>>: no value)
    u_editing,
    u_texts,
    u_feature_ids,
    u_translations,
    u_k,                \* texts done (per-text loops), i of the batch loop
    u_batch_size,
    u_batch_translations,
    u_retries,
    u_return,           \* what the function returned, "raised" if it raised
    u_attempts,         \* requests made for the current batch
    u_log,              \* the retries logged: how many batches needed any,
                        \* the first text of the last such batch, its retries
    \* GoogleTranslateService.translate / OllamaService.translate
    a_pc,
    a_service,          \* "google" or "ollama"
    a_input,            \* texts as given by the caller
    a_texts,            \* texts after cleaning
    a_batch_mode,
    a_batch_size,
    a_i,                \* i of the batch loop
    a_out,              \* all_translations / translations, then the result
    \* the response parsers
    p_pc,
    p_response,         \* response_text of parse_translations_list, as tokens
    p_lines,            \* the lines of the response in _translate_batch
    p_expected,         \* expected_count / len(texts)
    p_out,              \* the list returned
    \* the translation tab, the manager and the tasks it started
    m_requests,         \* clicks on the Translate button so far
    m_last,             \* what the last click did
    m_configured,       \* per service: its API key / URL is in the settings
    m_tasks,            \* the tasks handed to the task manager
    m_editing,          \* an edit session is open on the layer
    m_owner,            \* the task whose startEditing opened it (0: none)
    m_field,            \* the target field: "none", "pending", "committed"
    m_pending,          \* tasks with uncommitted writes in the session
    m_committed,        \* tasks whose writes were committed
    m_foreign,          \* edit operations made on another task's session
    \* ColumnCleaner.remove_columns_with_null_percentage
    n_pc,
    n_vector,           \* the layer is a QgsVectorLayer
    n_has_field,        \* field_name is a field of the layer
    n_editable,         \* layer.isEditable()
    n_values,           \* the value of the field in every feature
    n_threshold,
    n_null_count,
    n_deleted,          \* provider.deleteAttributes([field_idx]) was called
    n_return,           \* what the function returned, "raised" if it raised
    \* CleaningManager.clean_layer
    c_pc,
    c_vector,           \* the layer is a QgsVectorLayer
    c_can_edit,         \* startEditing() succeeds on the layer
    c_editing,          \* layer.isEditable()
    c_operations,       \* the type of every listed operation
    c_k,                \* operations done
    c_reports,          \* per operation done: "success", "failure", "raised"
    c_success,
    c_deleted,          \* columns deleted at the provider
    c_pending,          \* value changes pending in the edit session
    c_written,          \* value changes committed
    c_end,              \* how the session was ended: "commit", "rollback"
    c_return,
    \* ValueCleaner.find_and_replace_values with a reference layer
    f_pc,
    f_can_edit,         \* startEditing() succeeds on the source layer
    f_editing,          \* source_layer.isEditable()
    f_source,           \* the source field value of every feature, a string
    f_ref,              \* the reference layer: its find and replace values
    f_pattern,          \* pattern_match, with custom_pattern '\d+'
    f_strip,            \* strip_zeros
    f_pad,              \* pad_zeros
    f_new_column,       \* create_new_column, with new_column_type 'TEXT'
    f_lookup,           \* the lookup table
    f_k,                \* features done
    f_values,           \* the field written to, per feature, as pending
    f_written,          \* fids whose changeAttributeValue returned True
    f_count,
    f_return

layerVars == <<hasSource, source, hasTarget, target, editing, bufField, buffer>>
paramVars == <<batch_size, skip_values, requested>>
taskVars == <<pc, canceled, feature_ids, skipped_features, total_features,
              translated, translated_count, failed_features, exception,
              result, initial_count, chunk_start, i, batch_ids>>
histVars == <<calls, target0, hasTarget0, runs, populated, cancelPc,
              commitFailed, started, abandoned>>
utilVars == <<u_pc, u_service, u_source, u_target, u_editing, u_texts,
              u_feature_ids, u_translations, u_k, u_batch_size,
              u_batch_translations, u_retries, u_return, u_attempts, u_log>>
adapterVars == <<a_pc, a_service, a_input, a_texts, a_batch_mode,
                 a_batch_size, a_i, a_out>>
parserVars == <<p_pc, p_response, p_lines, p_expected, p_out>>
managerVars == <<m_requests, m_last, m_configured, m_tasks, m_editing,
                 m_owner, m_field, m_pending, m_committed, m_foreign>>
nullVars == <<n_pc, n_vector, n_has_field, n_editable, n_values, n_threshold,
              n_null_count, n_deleted, n_return>>
cleanVars == <<c_pc, c_vector, c_can_edit, c_editing, c_operations, c_k,
               c_reports, c_success, c_deleted, c_pending, c_written,
               c_end, c_return>>
findVars == <<f_pc, f_can_edit, f_editing, f_source, f_ref, f_pattern,
              f_strip, f_pad, f_new_column, f_lookup, f_k, f_values,
              f_written, f_count, f_return>>
vars == <<layerVars, paramVars, taskVars, histVars, final_count, report, progress,
          utilVars, adapterVars, parserVars, managerVars, nullVars, cleanVars, findVars>>
task == <<layerVars, paramVars, taskVars, histVars, final_count, report,
          progress>>
nonTask == <<utilVars, adapterVars, parserVars, managerVars, nullVars, cleanVars, findVars>>
nonUtils == <<task, adapterVars, parserVars, managerVars, nullVars, cleanVars, findVars>>
nonAdapter == <<task, utilVars, parserVars, managerVars, nullVars, cleanVars, findVars>>
nonParser == <<task, utilVars, adapterVars, managerVars, nullVars, cleanVars, findVars>>
nonManager == <<task, utilVars, adapterVars, parserVars, nullVars, cleanVars, findVars>>
nonNull == <<task, utilVars, adapterVars, parserVars, managerVars, cleanVars, findVars>>
nonClean == <<task, utilVars, adapterVars, parserVars, managerVars, nullVars, findVars>>
nonFind == <<task, utilVars, adapterVars, parserVars, managerVars, nullVars, cleanVars>>

\* -------------------------------------------------------- TranslationTask

\* TranslationTask.__init__: self.batch_size = min(batch_size, 5)
InitBatchSize(b) == Min(b, batch_cap)

\* the batch size without the second cap
RunBatchSizeUncapped == batch_size

\* run: batch_size = min(2, self.batch_size)
RunBatchSize == Min(small_batch, batch_size)

\* _should_skip_text without the test of the existing translation
ShouldSkipTextIgnoresExisting(text, existing) ==
    \/ text = NULL
    \/ Strip(text) = ""
    \/ Strip(text) \in skip_values

\* _should_skip_text without the test for a blank source text
ShouldSkipTextKeepsBlank(text, existing) ==
    \/ text # NULL /\ Strip(text) \in skip_values
    \/ Truthy(existing) /\ Strip(existing) # ""

\* _should_skip_text(text, existing_translation)
ShouldSkipText(text, existing) ==
    \/ text = NULL
    \/ Strip(text) = ""
    \/ Strip(text) \in skip_values
    \/ Truthy(existing) /\ Strip(existing) # ""

\* feature[target_idx] as getFeatures reads it: the pending value if any
Visible(f) == IF buffer[f] # NoChange THEN buffer[f] ELSE target[f]

\* a snapshot that takes every feature
EligibleAlways(f) == TRUE

Eligible(f) == ~ShouldSkipText(source[f], Visible(f))

NoBuffer == [f \in 1..Len(source) |-> NoChange]

\* the fresh state of a TranslationTask (__init__, lines 480-486)
FreshTask ==
    /\ pc' = "start"
    /\ canceled' = FALSE
    /\ feature_ids' = <<>>
    /\ skipped_features' = <<>>
    /\ total_features' = 0
    /\ translated' = {}
    /\ translated_count' = 0
    /\ failed_features' = <<>>
    /\ exception' = "none"
    /\ result' = "none"
    /\ initial_count' = 0
    /\ chunk_start' = 0
    /\ i' = 0
    /\ batch_ids' = <<>>

\* the outer handler of run (lines 695-702)
Raise(e) ==
    /\ exception' = e
    /\ result' = "False"
    /\ pc' = "done"

Return(r) ==
    /\ result' = r
    /\ pc' = "done"

\* layer.rollBack(): drop the pending changes and leave the edit session
rollBack ==
    /\ editing' = FALSE
    /\ bufField' = FALSE
    /\ buffer' = NoBuffer
    /\ started' = 0
    /\ UNCHANGED <<hasSource, source, hasTarget, target>>

\* run, lines 510-526: field indices, creation of the target field
EnsureFields ==
    /\ pc = "start"
    /\ UNCHANGED nonTask
    /\ UNCHANGED <<final_count, report, progress>>
    /\ UNCHANGED <<paramVars, canceled, feature_ids, skipped_features,
                   total_features, translated, translated_count,
                   failed_features, chunk_start, i, batch_ids>>
    /\ UNCHANGED <<calls, target0, hasTarget0, runs, populated, cancelPc,
                   commitFailed, abandoned>>
    /\ UNCHANGED <<hasSource, source, target, buffer>>
    /\ IF ~hasSource
       THEN /\ Raise("source_missing")
            /\ UNCHANGED <<hasTarget, editing, bufField, started, initial_count>>
       ELSE IF hasTarget \/ bufField
       THEN /\ initial_count' = Len(source)
            /\ pc' = "snapshot"
            /\ UNCHANGED <<hasTarget, editing, bufField, started, exception, result>>
       ELSE \E outcome \in {"no_edit", "no_field", "no_commit", "ok"} :
            CASE outcome = "no_edit" ->
                    \* startEditing() returned False
                    /\ Raise("field_edit")
                    /\ UNCHANGED <<hasTarget, editing, bufField, started, initial_count>>
              [] outcome = "no_field" ->
                    \* addAttribute() returned False, which is not looked
                    \* at; the commit of the empty session succeeds and
                    \* target_idx stays -1
                    /\ ~editing
                    /\ initial_count' = Len(source)
                    /\ pc' = "snapshot"
                    /\ UNCHANGED <<hasTarget, editing, bufField, started,
                                   exception, result>>
              [] outcome = "no_commit" ->
                    \* commitChanges() returned False: raised past the inner
                    \* handler, the session stays open with the new field
                    /\ ~editing
                    /\ editing' = TRUE
                    /\ bufField' = TRUE
                    /\ started' = started + 1
                    /\ Raise("add_field")
                    /\ UNCHANGED <<hasTarget, initial_count>>
              [] outcome = "ok" ->
                    /\ ~editing
                    /\ hasTarget' = TRUE
                    /\ initial_count' = Len(source)
                    /\ pc' = "snapshot"
                    /\ UNCHANGED <<editing, bufField, started, exception, result>>

\* target_idx as run holds it after line 523: -1 when the field is neither
\* a field of the layer nor pending in the open session
TargetIdxValid == hasTarget \/ bufField

\* run, lines 533-571: the snapshot of the features to translate; reading
\* feature[-1] of the first feature raises KeyError
Snapshot ==
    /\ pc = "snapshot"
    /\ UNCHANGED nonTask
    /\ UNCHANGED <<final_count, report, progress>>
    /\ IF ~TargetIdxValid /\ Len(source) > 0
       THEN /\ Raise("key")
            /\ UNCHANGED <<feature_ids, skipped_features, total_features>>
       ELSE LET all == Ids(Len(source))
                keep == SelectSeq(all, LAMBDA f : Eligible(f))
                skip == SelectSeq(all, LAMBDA f : ~Eligible(f))
            IN  /\ feature_ids' = keep
                /\ skipped_features' = skip
                /\ total_features' = Len(keep)
                /\ IF Len(keep) = 0
                   THEN Return("True") /\ UNCHANGED exception
                   ELSE pc' = "begin" /\ UNCHANGED <<result, exception>>
    /\ UNCHANGED <<layerVars, paramVars, histVars>>
    /\ UNCHANGED <<canceled, translated, translated_count, failed_features,
                   initial_count, chunk_start, i, batch_ids>>

\* run, lines 573-579: startEditing once for all changes
BeginEdit ==
    /\ pc = "begin"
    /\ UNCHANGED nonTask
    /\ UNCHANGED <<final_count, report, progress>>
    /\ UNCHANGED <<paramVars, canceled, feature_ids, skipped_features,
                   total_features, translated, translated_count,
                   failed_features, initial_count, i, batch_ids>>
    /\ UNCHANGED <<calls, target0, hasTarget0, runs, populated, cancelPc,
                   commitFailed, abandoned>>
    /\ UNCHANGED <<hasSource, source, hasTarget, target, bufField, buffer>>
    /\ \E ok \in (IF editing THEN {FALSE} ELSE BOOLEAN) :
         IF ok
         THEN /\ editing' = TRUE
              /\ started' = started + 1
              /\ chunk_start' = 0
              /\ pc' = "chunk"
              /\ UNCHANGED <<exception, result>>
         ELSE /\ Raise("start_editing")
              /\ UNCHANGED <<editing, started, chunk_start>>

\* chunk_ids = feature_ids[chunk_start:chunk_end]
ChunkIds ==
    SubSeq(feature_ids, chunk_start + 1,
           Min(chunk_start + chunk_size, Len(feature_ids)))

\* batch_ids = chunk_ids[i:i + batch_size]
BatchIds == SubSeq(ChunkIds, i + 1, Min(i + RunBatchSize, Len(ChunkIds)))

\* isCanceled() seen at a loop head: rollBack, return False (lines 585-596)
CancelReturn ==
    /\ rollBack
    /\ Return("False")
    /\ UNCHANGED <<paramVars, canceled, feature_ids, skipped_features,
                   total_features, translated, translated_count,
                   failed_features, exception, initial_count, chunk_start, i,
                   batch_ids>>
    /\ UNCHANGED <<calls, target0, hasTarget0, runs, populated, cancelPc,
                   commitFailed, abandoned>>

\* run, lines 584-590: head of the chunk loop
ChunkHead ==
    /\ pc = "chunk"
    /\ UNCHANGED nonTask
    /\ UNCHANGED <<final_count, report, progress>>
    /\ IF canceled
       THEN CancelReturn
       ELSE /\ i' = 0
            /\ pc' = "batch"
            /\ UNCHANGED <<layerVars, paramVars, histVars>>
            /\ UNCHANGED <<canceled, feature_ids, skipped_features,
                           total_features, translated, translated_count,
                           failed_features, exception, result, initial_count,
                           chunk_start, batch_ids>>

\* run, lines 593-612: head of the batch loop, the call of the service
BatchHead ==
    /\ pc = "batch"
    /\ UNCHANGED nonTask
    /\ UNCHANGED <<final_count, report, progress>>
    /\ IF canceled
       THEN CancelReturn
       ELSE /\ batch_ids' = BatchIds
            /\ calls' = Append(calls, BatchIds)
            /\ pc' = "call"
            /\ UNCHANGED <<layerVars, paramVars>>
            /\ UNCHANGED <<target0, hasTarget0, runs, populated, cancelPc,
                           commitFailed, started, abandoned>>
            /\ UNCHANGED <<canceled, feature_ids, skipped_features,
                           total_features, translated, translated_count,
                           failed_features, exception, result, initial_count,
                           chunk_start, i>>

\* the loop that hands the same batch to the service again
NextBatchStays ==
    /\ pc' = "batch"
    /\ UNCHANGED <<chunk_start, i>>

\* the loop left for the commit after the first batch
NextBatchCommitsEarly ==
    /\ pc' = "commit"
    /\ UNCHANGED <<chunk_start, i>>

\* the loop counters after a batch: next batch, next chunk, or the commit
NextBatch ==
    IF i + RunBatchSize < Len(ChunkIds)
    THEN /\ i' = i + RunBatchSize
         /\ pc' = "batch"
         /\ UNCHANGED chunk_start
    ELSE /\ chunk_start' = chunk_start + chunk_size
         /\ pc' = IF chunk_start + chunk_size < Len(feature_ids)
                  THEN "chunk" ELSE "commit"
         /\ UNCHANGED i

\* what service.translate can give back for n texts: a list (of any length up
\* to one more than asked for) of translations and empty strings
Replies(n) == UNION {[1..k -> ReplyValues] : k \in 0..(n + 1)}

\* the progress before the first setProgress: QgsTask starts at 0
NoProgress == <<0, 1>>

\* the progress counted in features still to translate
ProgressRemaining(count, total) == <<total - count, total>>

\* run, lines 628-630: progress = (translated_count / total_features) * 100,
\* kept as the fraction it is computed from
Progress(count, total) == <<count, total>>

\* run, lines 614-634: zip(batch_ids, translations), changeAttributeValue
\* refused for the fids in refused
WriteBatch(reply, refused) ==
    LET paired == {k \in 1..Min(Len(batch_ids), Len(reply)) : Truthy(reply[k])}
        written == {batch_ids[k] : k \in {x \in paired : batch_ids[x] \notin refused}}
        value(f) == reply[CHOOSE k \in paired : batch_ids[k] = f]
    IN  /\ buffer' = [f \in 1..Len(source) |->
                         IF f \in written THEN value(f) ELSE buffer[f]]
        /\ translated' = translated \cup written
        /\ translated_count' = translated_count + Cardinality(written)
        /\ progress' = Progress(translated_count', total_features)
        /\ failed_features' = failed_features \o
               SelectSeq(batch_ids, LAMBDA f : f \in refused)
        /\ NextBatch
        /\ UNCHANGED <<hasSource, source, hasTarget, target, editing, bufField,
                       started, exception, result, abandoned>>

\* the handler of a batch without the rollBack of the authentication error
BatchErrorKeepsEdits(auth) ==
    /\ failed_features' = failed_features \o batch_ids
    /\ UNCHANGED <<translated, translated_count, progress>>
    /\ IF auth
       THEN /\ Raise("auth")
            /\ UNCHANGED <<layerVars, started, chunk_start, i, abandoned>>
       ELSE /\ NextBatch
            /\ abandoned' = abandoned \cup {batch_ids}
            /\ UNCHANGED <<layerVars, started, exception, result>>

\* run, lines 636-656: the service raised
BatchError(auth) ==
    /\ failed_features' = failed_features \o batch_ids
    /\ UNCHANGED <<translated, translated_count, progress>>
    /\ IF auth
       THEN /\ rollBack
            /\ Raise("auth")
            /\ UNCHANGED <<chunk_start, i, abandoned>>
       ELSE /\ NextBatch
            /\ abandoned' = abandoned \cup {batch_ids}
            /\ UNCHANGED <<layerVars, started, exception, result>>

\* the texts a batch reply was paired with and found translated
Answered(reply) ==
    {batch_ids[k] : k \in {x \in 1..Min(Len(batch_ids), Len(reply)) : Truthy(reply[x])}}

ReceiveFrame ==
    /\ batch_ids' = <<>>
    /\ UNCHANGED <<paramVars, canceled, feature_ids, skipped_features,
                   total_features, initial_count>>
    /\ UNCHANGED <<calls, target0, hasTarget0, runs, populated, cancelPc,
                   commitFailed>>

\* run, lines 601-662: service.translate returns or raises
Receive ==
    /\ pc = "call"
    /\ UNCHANGED nonTask
    /\ UNCHANGED <<final_count, report>>
    /\ \/ \E reply \in Replies(Len(batch_ids)) :
          \E refused \in SUBSET Answered(reply) : WriteBatch(reply, refused)
       \/ \E auth \in BOOLEAN : BatchError(auth)
    /\ ReceiveFrame

\* run, lines 614-643: the batch is written and counted, then the progress
\* callback (line 633) raises and the handler of the batch records every
\* feature of the batch as failed
WriteBatchCallbackRaises(reply, refused) ==
    LET paired == {k \in 1..Min(Len(batch_ids), Len(reply)) : Truthy(reply[k])}
        written == {batch_ids[k] : k \in {x \in paired : batch_ids[x] \notin refused}}
        value(f) == reply[CHOOSE k \in paired : batch_ids[k] = f]
    IN  /\ buffer' = [f \in 1..Len(source) |->
                         IF f \in written THEN value(f) ELSE buffer[f]]
        /\ translated' = translated \cup written
        /\ translated_count' = translated_count + Cardinality(written)
        /\ progress' = Progress(translated_count', total_features)
        /\ failed_features' = failed_features \o
               SelectSeq(batch_ids, LAMBDA f : f \in refused) \o batch_ids
        /\ NextBatch
        /\ UNCHANGED <<hasSource, source, hasTarget, target, editing, bufField,
                       started, exception, result, abandoned>>

\* run, lines 601-662, of a task whose progress callback may raise
ReceiveCallback ==
    /\ pc = "call"
    /\ UNCHANGED nonTask
    /\ UNCHANGED <<final_count, report>>
    /\ \/ \E reply \in Replies(Len(batch_ids)) :
          \E refused \in SUBSET Answered(reply) :
             \/ WriteBatch(reply, refused)
             \/ WriteBatchCallbackRaises(reply, refused)
       \/ \E auth \in BOOLEAN : BatchError(auth)
    /\ ReceiveFrame

\* the same with a service that translates every text of the batch and a
\* layer that accepts every change
ReceiveFull ==
    /\ pc = "call"
    /\ UNCHANGED nonTask
    /\ UNCHANGED <<final_count, report>>
    /\ WriteBatch([k \in 1..Len(batch_ids) |-> "T"], {})
    /\ ReceiveFrame

\* layer.commitChanges() returning True: the pending values become the
\* committed ones and the session ends
commitChanges ==
    /\ target' = [f \in 1..Len(source) |-> Visible(f)]
    /\ hasTarget' = (hasTarget \/ bufField)
    /\ buffer' = NoBuffer
    /\ bufField' = FALSE
    /\ editing' = FALSE
    /\ started' = 0
    /\ UNCHANGED <<hasSource, source>>

\* self.layer.featureCount() after the commit: the count read before the
\* snapshot, or one more when a feature was added to the layer through the
\* open session in between; such a feature holds no source text, no run
\* translates it and the model keeps only its count
FinalCounts == {initial_count, initial_count + 1}

\* run, lines 677-683 (and 691-693, 695-702 on a mismatch): the final
\* verification. The rollBack of the inner handler finds no edit session
\* then, the commit has ended it, and changes nothing.
Verify(count) ==
    /\ final_count' = count
    /\ IF count # initial_count
       THEN Raise("count")
       ELSE Return("True") /\ UNCHANGED exception

\* the commit without the inner handler's rollBack
CommitNoRollback ==
    /\ pc = "commit"
    /\ UNCHANGED nonTask
    /\ \E ok \in BOOLEAN :
         IF ok
         THEN /\ commitChanges
              /\ \E count \in FinalCounts : Verify(count)
              /\ UNCHANGED commitFailed
         ELSE /\ commitFailed' = TRUE
              /\ Raise("commit")
              /\ UNCHANGED <<layerVars, started, final_count>>
    /\ UNCHANGED <<paramVars, canceled, feature_ids, skipped_features,
                   total_features, translated, translated_count,
                   failed_features, initial_count, chunk_start, i, batch_ids>>
    /\ UNCHANGED <<calls, target0, hasTarget0, runs, populated, cancelPc,
                   abandoned, report, progress>>

\* run, lines 664-693: commit, final verification, the inner handler
Commit ==
    /\ pc = "commit"
    /\ UNCHANGED nonTask
    /\ \E ok \in BOOLEAN :
         IF ok
         THEN /\ commitChanges
              /\ \E count \in FinalCounts : Verify(count)
              /\ UNCHANGED commitFailed
         ELSE /\ commitFailed' = TRUE
              /\ rollBack
              /\ Raise("commit")
              /\ UNCHANGED final_count
    /\ UNCHANGED <<paramVars, canceled, feature_ids, skipped_features,
                   total_features, translated, translated_count,
                   failed_features, initial_count, chunk_start, i, batch_ids>>
    /\ UNCHANGED <<calls, target0, hasTarget0, runs, populated, cancelPc,
                   abandoned, report, progress>>

\* finished without the test of self.exception
ReportIgnoresException ==
    IF result = "True"
    THEN IF failed_features # <<>> THEN "completed with failed features"
         ELSE "completed successfully"
    ELSE "cancelled"

\* what finished(result) logs, lines 710-734
Report ==
    IF result = "True"
    THEN IF failed_features # <<>> THEN "completed with failed features"
         ELSE "completed successfully"
    ELSE IF exception # "none" THEN "failed"
    ELSE "cancelled"

\* TranslationTask.finished(result), called once run has returned
Finished ==
    /\ pc = "done"
    /\ report = "none"
    /\ UNCHANGED nonTask
    /\ report' = Report
    /\ UNCHANGED <<layerVars, paramVars, taskVars, histVars, final_count,
                   progress>>

\* finished(result) of a task whose progress callback may raise: the call
\* of lines 707-708 comes first, and nothing is logged when it raises
FinishedCallback ==
    /\ pc = "done"
    /\ report = "none"
    /\ UNCHANGED nonTask
    /\ \E raises \in BOOLEAN : report' = IF raises THEN "nothing" ELSE Report
    /\ UNCHANGED <<layerVars, paramVars, taskVars, histVars, final_count,
                   progress>>

\* QgsTask.cancel(), from the user, while run is executing
Cancel ==
    /\ pc \notin {"start", "done"}
    /\ UNCHANGED nonTask
    /\ UNCHANGED <<final_count, report, progress>>
    /\ ~canceled
    /\ canceled' = TRUE
    /\ cancelPc' = pc
    /\ UNCHANGED <<layerVars, paramVars>>
    /\ UNCHANGED <<pc, feature_ids, skipped_features, total_features,
                   translated, translated_count, failed_features, exception,
                   result, initial_count, chunk_start, i, batch_ids>>
    /\ UNCHANGED <<calls, target0, hasTarget0, runs, populated, commitFailed,
                   started, abandoned>>

\* TranslationManager.translate_column again: a new task on the same layer,
\* fields and settings, once the previous one has finished
Rerun ==
    /\ pc = "done"
    /\ UNCHANGED nonTask
    /\ report # "none"
    /\ runs < MaxRuns
    /\ FreshTask
    /\ report' = "none"
    /\ final_count' = 0
    /\ progress' = NoProgress
    /\ runs' = runs + 1
    /\ calls' = <<>>
    /\ target0' = target
    /\ hasTarget0' = hasTarget
    /\ populated' = {f \in 1..Len(source) :
                        Strip(target0[f]) = "" /\ Strip(target[f]) # ""}
    /\ cancelPc' = "none"
    /\ commitFailed' = FALSE
    /\ started' = 0
    /\ abandoned' = {}
    /\ UNCHANGED <<layerVars, paramVars>>

\* the variables of translate_column while it is not modelled
UtilsIdle ==
    /\ u_pc = "idle"
    /\ u_service = "none"
    /\ u_source = <<>>
    /\ u_target = <<>>
    /\ u_editing = FALSE
    /\ u_texts = <<>>
    /\ u_feature_ids = <<>>
    /\ u_translations = <<>>
    /\ u_k = 0
    /\ u_batch_size = 0
    /\ u_batch_translations = [set |-> FALSE, val |-> <<>>]
    /\ u_retries = 0
    /\ u_return = "none"
    /\ u_attempts = 0
    /\ u_log = [batches |-> 0, at |-> 0, retries |-> 0]

\* the variables of the services while they are not modelled
AdapterIdle ==
    /\ a_pc = "idle"
    /\ a_service = "none"
    /\ a_input = <<>>
    /\ a_texts = <<>>
    /\ a_batch_mode = TRUE
    /\ a_batch_size = 0
    /\ a_i = 0
    /\ a_out = <<>>

\* the variables of the parsers while they are not modelled
ParserIdle ==
    /\ p_pc = "idle"
    /\ p_response = <<>>
    /\ p_lines = <<>>
    /\ p_expected = 0
    /\ p_out = <<>>

\* the services of the combo box (translation_tab.py, line 98)
Services == {"Google Translate", "OpenAI", "DeepSeek", "Ollama"}

\* the variables of the tab and the manager while they are not modelled
ManagerIdle ==
    /\ m_requests = 0
    /\ m_last = [service |-> "none", created |-> FALSE, requests |-> 0,
                 raised |-> "none", dialog |-> "none"]
    /\ m_configured = [s \in Services |-> TRUE]
    /\ m_tasks = <<>>
    /\ m_editing = FALSE
    /\ m_owner = 0
    /\ m_field = "committed"
    /\ m_pending = {}
    /\ m_committed = {}
    /\ m_foreign = {}

\* the variables of remove_columns_with_null_percentage while it is not
\* modelled
NullIdle ==
    /\ n_pc = "idle"
    /\ n_vector = TRUE
    /\ n_has_field = TRUE
    /\ n_editable = FALSE
    /\ n_values = <<>>
    /\ n_threshold = 0
    /\ n_null_count = 0
    /\ n_deleted = FALSE
    /\ n_return = "none"

\* the variables of clean_layer while it is not modelled
CleanIdle ==
    /\ c_pc = "idle"
    /\ c_vector = TRUE
    /\ c_can_edit = TRUE
    /\ c_editing = FALSE
    /\ c_operations = <<>>
    /\ c_k = 0
    /\ c_reports = <<>>
    /\ c_success = TRUE
    /\ c_deleted = 0
    /\ c_pending = 0
    /\ c_written = 0
    /\ c_end = "none"
    /\ c_return = "none"

\* the variables of find_and_replace_values while it is not modelled
FindIdle ==
    /\ f_pc = "idle"
    /\ f_can_edit = TRUE
    /\ f_editing = FALSE
    /\ f_source = <<>>
    /\ f_ref = <<>>
    /\ f_pattern = FALSE
    /\ f_strip = FALSE
    /\ f_pad = FALSE
    /\ f_new_column = FALSE
    /\ f_lookup = {}
    /\ f_k = 0
    /\ f_values = <<>>
    /\ f_written = {}
    /\ f_count = 0
    /\ f_return = -1

\* ------------------------------------------------------------------ Spec

\* the state of a task that has not run, and of its history
TaskFresh ==
    /\ canceled = FALSE
    /\ feature_ids = <<>>
    /\ skipped_features = <<>>
    /\ total_features = 0
    /\ translated = {}
    /\ translated_count = 0
    /\ failed_features = <<>>
    /\ exception = "none"
    /\ result = "none"
    /\ initial_count = 0
    /\ chunk_start = 0
    /\ i = 0
    /\ batch_ids = <<>>
    /\ calls = <<>>
    /\ runs = 1
    /\ populated = {}
    /\ cancelPc = "none"
    /\ commitFailed = FALSE
    /\ started = 0
    /\ abandoned = {}

InitTask(n, src, tgt, hs, ht, b, sk) ==
    /\ hasSource = hs
    /\ source = src
    /\ hasTarget = ht
    /\ target = tgt
    /\ editing = FALSE
    /\ bufField = FALSE
    /\ buffer = [f \in 1..n |-> NoChange]
    /\ final_count = 0
    /\ report = "none"
    /\ progress = NoProgress
    /\ requested = b
    /\ batch_size = InitBatchSize(b)
    /\ skip_values = sk
    /\ target0 = tgt
    /\ hasTarget0 = ht
    /\ TaskFresh

Init ==
    \E n \in 0..MaxFeatures :
    \E src \in [1..n -> SourceValues], tgt \in [1..n -> TargetValues] :
    \E hs \in BOOLEAN, ht \in BOOLEAN :
    \E b \in 1..MaxBatchSize, sk \in {{}, {"s"}} :
        /\ ~hs => src = [f \in 1..n |-> NULL]
        /\ ~ht => tgt = [f \in 1..n |-> NULL]
        /\ InitTask(n, src, tgt, hs, ht, b, sk)
        /\ pc = "start"
        /\ UtilsIdle
        /\ AdapterIdle
        /\ ParserIdle
        /\ ManagerIdle
        /\ NullIdle
        /\ CleanIdle
        /\ FindIdle

Next ==
    \/ EnsureFields
    \/ Snapshot
    \/ BeginEdit
    \/ ChunkHead
    \/ BatchHead
    \/ Receive
    \/ Commit
    \/ Finished
    \/ Cancel
    \/ Rerun

Spec == Init /\ [][Next]_vars

\* ------------------------------------------------------------- SpecBatch

InitBatch ==
    \E n \in 0..MaxSnapshot, blank \in 0..MaxBlank :
    \E ht \in BOOLEAN, b \in 1..MaxBatchRequest :
        /\ InitTask(n, [f \in 1..n |-> IF f <= blank THEN NULL ELSE "a"],
                    [f \in 1..n |-> NULL], TRUE, ht, b, {})
        /\ pc = "start"
        /\ UtilsIdle
        /\ AdapterIdle
        /\ ParserIdle
        /\ ManagerIdle
        /\ NullIdle
        /\ CleanIdle
        /\ FindIdle

NextBatchSpec ==
    \/ EnsureFields
    \/ Snapshot
    \/ BeginEdit
    \/ ChunkHead
    \/ BatchHead
    \/ ReceiveFull
    \/ Commit
    \/ Finished
    \/ Cancel

SpecBatch == InitBatch /\ [][NextBatchSpec]_vars

\* ---------------------------------------------------------- SpecCallback

NextCallback ==
    \/ EnsureFields
    \/ Snapshot
    \/ BeginEdit
    \/ ChunkHead
    \/ BatchHead
    \/ ReceiveCallback
    \/ Commit
    \/ FinishedCallback
    \/ Cancel

SpecCallback == Init /\ [][NextCallback]_vars

\* ------------------------------------------- clean_data_utils.translate_*

\* the variables of TranslationTask while it is not modelled
TaskIdle ==
    /\ InitTask(0, <<>>, <<>>, TRUE, TRUE, 1, {})
    /\ pc = "idle"

Tr(t) == <<t>>              \* the translation of text t
NoValue == <<>>             \* a field without value

\* translate_column: what ends it (return True / False)
UReturn(r) ==
    /\ u_return' = r
    /\ u_pc' = "done"

\* an exception leaving translate_with_ollama: to the caller of a direct
\* call, to the handler of translate_column (lines 218-220) otherwise
URaise == UReturn(IF u_service = "direct" THEN "raised" ELSE "False")

\* translate_column, lines 177-208: the new field, the texts, the service
UStart ==
    /\ u_pc = "start"
    /\ UNCHANGED nonUtils
    /\ UNCHANGED <<u_service, u_source, u_target, u_editing, u_translations,
                   u_k, u_batch_size, u_batch_translations, u_retries,
                   u_attempts, u_log>>
    /\ \E found \in BOOLEAN :
         IF ~found
         THEN /\ UReturn("False")
              /\ UNCHANGED <<u_texts, u_feature_ids>>
         ELSE LET ids == SelectSeq(Ids(Len(u_source)), LAMBDA f : u_source[f] # 0)
              IN  /\ u_feature_ids' = ids
                  /\ u_texts' = [k \in 1..Len(ids) |-> u_source[ids[k]]]
                  /\ u_pc' = CASE u_service = "Google Translate" -> "google"
                               [] u_service \in {"OpenAI", "DeepSeek"} -> "llm"
                               [] OTHER -> "ollama_start"
                  /\ UNCHANGED u_return

\* translate_with_google, lines 408-423: the request for one text
GoogleText ==
    /\ u_pc = "google"
    /\ u_k < Len(u_texts)
    /\ \E outcome \in {"ok", "status", "exception"} :
         u_translations' = IF outcome = "ok"
                           THEN Append(u_translations, Tr(u_texts[u_k + 1]))
                           ELSE u_translations
    /\ u_k' = u_k + 1
    /\ UNCHANGED nonUtils
    /\ UNCHANGED <<u_pc, u_service, u_source, u_target, u_editing, u_texts,
                   u_feature_ids, u_batch_size, u_batch_translations,
                   u_retries, u_return, u_attempts, u_log>>

\* the service name translate_column hands to translate_with_llm
LlmService == IF u_service = "OpenAI" THEN "openai" ELSE "deepseek"

\* translate_with_llm, lines 361-398: the request for one text
LlmText ==
    /\ u_pc = "llm"
    /\ u_k < Len(u_texts)
    /\ IF LlmService = "OpenAI" \/ LlmService = "DeepSeek"
       THEN \E outcome \in {"ok", "status", "exception"} :
               u_translations' = IF outcome = "ok"
                                 THEN Append(u_translations, Tr(u_texts[u_k + 1]))
                                 ELSE u_translations
       ELSE UNCHANGED u_translations
    /\ u_k' = u_k + 1
    /\ UNCHANGED nonUtils
    /\ UNCHANGED <<u_pc, u_service, u_source, u_target, u_editing, u_texts,
                   u_feature_ids, u_batch_size, u_batch_translations,
                   u_retries, u_return, u_attempts, u_log>>

\* translate_with_google / translate_with_llm: return translations
TextsDone ==
    /\ u_pc \in {"google", "llm"}
    /\ u_k = Len(u_texts)
    /\ u_pc' = "write"
    /\ UNCHANGED nonUtils
    /\ UNCHANGED <<u_service, u_source, u_target, u_editing, u_texts,
                   u_feature_ids, u_translations, u_k, u_batch_size,
                   u_batch_translations, u_retries, u_return, u_attempts,
                   u_log>>

\* translate_with_ollama, lines 276-287: the configured URL
OllamaStart ==
    /\ u_pc = "ollama_start"
    /\ \E url \in BOOLEAN :
         IF url
         THEN u_pc' = "ollama" /\ UNCHANGED u_return
         ELSE URaise
    /\ UNCHANGED nonUtils
    /\ UNCHANGED <<u_service, u_source, u_target, u_editing, u_texts,
                   u_feature_ids, u_translations, u_k, u_batch_size,
                   u_batch_translations, u_retries, u_attempts, u_log>>

\* batch = texts[i:i + batch_size]
OllamaBatch == SubSeq(u_texts, u_k + 1, Min(u_k + u_batch_size, Len(u_texts)))

\* the head of the batch loop without the reset of retries
OllamaBatchHeadKeepsRetries ==
    /\ u_pc = "ollama"
    /\ UNCHANGED nonUtils
    /\ UNCHANGED <<u_service, u_source, u_target, u_editing, u_texts,
                   u_feature_ids, u_translations, u_k, u_batch_size, u_log,
                   u_retries>>
    /\ IF u_k < Len(u_texts)
       THEN /\ u_batch_translations' = [set |-> FALSE, val |-> <<>>]
            /\ u_attempts' = 0
            /\ u_pc' = "try"
            /\ UNCHANGED u_return
       ELSE /\ UNCHANGED <<u_batch_translations, u_attempts>>
            /\ IF u_service = "direct"
               THEN UReturn("returned")
               ELSE u_pc' = "write" /\ UNCHANGED u_return

\* translate_with_ollama, lines 290-293 and 355: the head of the batch loop
OllamaBatchHead ==
    /\ u_pc = "ollama"
    /\ UNCHANGED nonUtils
    /\ UNCHANGED <<u_service, u_source, u_target, u_editing, u_texts,
                   u_feature_ids, u_translations, u_k, u_batch_size, u_log>>
    /\ IF u_k < Len(u_texts)
       THEN /\ u_batch_translations' = [set |-> FALSE, val |-> <<>>]
            /\ u_retries' = 0
            /\ u_attempts' = 0
            /\ u_pc' = "try"
            /\ UNCHANGED u_return
       ELSE /\ UNCHANGED <<u_batch_translations, u_retries, u_attempts>>
            /\ IF u_service = "direct"
               THEN UReturn("returned")
               ELSE u_pc' = "write" /\ UNCHANGED u_return

\* what parse_translations_list gives translate_with_ollama for a batch: the
\* translations, one too few of them, or one entry too many
Parsed(batch) ==
    LET right == [k \in 1..Len(batch) |-> Tr(batch[k])]
    IN  {right, right \o <<Tr(0)>>} \cup
        (IF batch = <<>> THEN {} ELSE {SubSeq(right, 1, Len(batch) - 1)})

\* translate_with_ollama, lines 347-353: the handler of a failed attempt
OllamaFailed ==
    IF u_retries < max_retries
    THEN /\ u_retries' = u_retries + 1
         /\ UNCHANGED <<u_pc, u_return>>
    ELSE /\ URaise
         /\ UNCHANGED u_retries

\* translate_with_ollama, lines 295-353: one pass of the retry loop
OllamaAttempt ==
    /\ u_pc = "try"
    /\ u_retries <= max_retries
    /\ \/ ~u_batch_translations.set
       \/ Len(u_batch_translations.val) # Len(OllamaBatch)
    /\ u_attempts' = u_attempts + 1
    /\ \/ \* the request or the parser raised
          /\ OllamaFailed
          /\ UNCHANGED <<u_batch_translations, u_translations, u_k, u_log>>
       \/ \E parsed \in Parsed(OllamaBatch) :
          /\ u_batch_translations' = [set |-> TRUE, val |-> parsed]
          /\ IF Len(parsed) # Len(OllamaBatch)
             THEN /\ OllamaFailed
                  /\ UNCHANGED <<u_translations, u_k, u_log>>
             ELSE /\ u_translations' = u_translations \o parsed
                  /\ u_log' = IF u_retries = 0 THEN u_log
                               ELSE [batches |-> u_log.batches + 1,
                                     at |-> u_k + 1, retries |-> u_retries]
                  /\ u_k' = u_k + u_batch_size
                  /\ u_pc' = "ollama"
                  /\ UNCHANGED <<u_retries, u_return>>
    /\ UNCHANGED nonUtils
    /\ UNCHANGED <<u_service, u_source, u_target, u_editing, u_texts,
                   u_feature_ids, u_batch_size>>

\* translate_column, lines 210-216: zip(feature_ids, translations)
UWrite ==
    /\ u_pc = "write"
    /\ LET pairs == 1..Min(Len(u_feature_ids), Len(u_translations))
           new == [f \in 1..Len(u_source) |->
                     IF \E k \in pairs : u_feature_ids[k] = f
                     THEN u_translations[CHOOSE k \in pairs : u_feature_ids[k] = f]
                     ELSE u_target[f]]
       IN  \E committed \in BOOLEAN :
              /\ u_target' = IF committed THEN new ELSE u_target
              /\ u_editing' = ~committed
    /\ UReturn("True")
    /\ UNCHANGED nonUtils
    /\ UNCHANGED <<u_service, u_source, u_texts, u_feature_ids,
                   u_translations, u_k, u_batch_size, u_batch_translations,
                   u_retries, u_attempts, u_log>>

InitUtils ==
    /\ ManagerIdle
    /\ NullIdle
    /\ CleanIdle
    /\ FindIdle
    /\ TaskIdle
    /\ AdapterIdle
    /\ ParserIdle
    /\ u_editing = FALSE
    /\ u_feature_ids = <<>>
    /\ u_translations = <<>>
    /\ u_k = 0
    /\ u_batch_translations = [set |-> FALSE, val |-> <<>>]
    /\ u_retries = 0
    /\ u_return = "none"
    /\ u_attempts = 0
    /\ u_log = [batches |-> 0, at |-> 0, retries |-> 0]
    /\ \/ \* translate_column on a layer
          /\ u_pc = "start"
          /\ u_service \in {"Google Translate", "OpenAI", "DeepSeek", "Ollama"}
          /\ \E n \in 0..MaxUtilFeatures : \E valued \in SUBSET (1..n) :
                u_source = [f \in 1..n |-> IF f \in valued THEN f ELSE 0]
          /\ u_texts = <<>>
          /\ u_batch_size = ollama_batch_size
       \/ \* translate_with_ollama(texts, batch_size = b)
          /\ u_pc = "ollama_start"
          /\ u_service = "direct"
          /\ u_source = <<>>
          /\ \E n \in 0..MaxOllamaTexts : u_texts = Ids(n)
          /\ u_batch_size \in 1..MaxOllamaBatch
    /\ u_target = [f \in 1..Len(u_source) |-> NoValue]

NextUtils ==
    \/ UStart
    \/ GoogleText
    \/ LlmText
    \/ TextsDone
    \/ OllamaStart
    \/ OllamaBatchHead
    \/ OllamaAttempt
    \/ UWrite

SpecUtils == InitUtils /\ [][NextUtils]_vars

\* -------------------------------------------------------------- SpecLive

\* run and translate_with_ollama, each on its own, with the steps of each
\* taken as long as one is possible: the code is sequential and every call
\* it makes returns or raises
InitLive == Init \/ InitUtils

\* a step of run
RunStep ==
    \/ EnsureFields
    \/ Snapshot
    \/ BeginEdit
    \/ ChunkHead
    \/ BatchHead
    \/ Receive
    \/ Commit

NextLive ==
    \/ RunStep
    \/ Finished
    \/ Cancel
    \/ NextUtils

SpecLive ==
    /\ InitLive
    /\ [][NextLive]_vars
    /\ WF_vars(RunStep)
    /\ WF_vars(NextUtils)

\* ----------------------- GoogleTranslateService / OllamaService.translate

AdapterTexts == {"a", "b", " "}

\* what the backend makes of a text
Translation(t) == CASE t = "a" -> "A" [] t = "b" -> "B" [] OTHER -> ""

Right(batch) == [k \in 1..Len(batch) |-> Translation(batch[k])]

Empties(n) == [k \in 1..n |-> ""]

\* [self._translate_single(text, ...) for text in texts]: every call gives
\* the stripped translation, or "" when the request failed
Singles(texts) ==
    {[k \in 1..Len(texts) |-> IF ok[k] THEN Translation(texts[k]) ELSE ""] :
        ok \in [1..Len(texts) -> BOOLEAN]}

\* GoogleTranslateService._translate_batch, lines 193-229: the translatedText
\* of every translation of the reply, however many the backend sent;
\* empty strings for an invalid reply or a failed request
GoogleTranslateBatch(batch) ==
    {SubSeq(Right(batch), 1, k) : k \in 0..Len(batch)}
        \cup {Right(batch) \o <<"X">>, Empties(Len(batch))}

\* a line of an Ollama response: numbered ("1. text") or not
Numbered(t) == [n |-> TRUE, t |-> t]
Plain(t) == [n |-> FALSE, t |-> t]

\* line.strip() of a line of the response
Raw(line) == IF line.n THEN "1. " \o line.t ELSE line.t

\* the responses of a model that translates the numbered texts in order:
\* with or without the numbers, a preamble, a closing line, lines missing
OllamaResponses(batch) ==
    {(IF pre THEN <<Plain("Here")>> ELSE <<>>)
        \o [k \in 1..m |-> IF num THEN Numbered(Translation(batch[k]))
                                    ELSE Plain(Translation(batch[k]))]
        \o (IF post THEN <<Plain("Done")>> ELSE <<>>) :
        pre \in BOOLEAN, post \in BOOLEAN, num \in BOOLEAN, m \in 0..Len(batch)}

RECURSIVE Join(_)
\* ' '.join(current_translation)
Join(parts) ==
    IF Len(parts) = 1 THEN parts[1]
    ELSE parts[1] \o " " \o Join(Tail(parts))

Flush(current) == IF current = <<>> THEN <<>> ELSE <<Join(current)>>

RECURSIVE NumberedLines(_, _, _)
\* OllamaService._translate_batch, lines 401-422: split by numbered lines
NumberedLines(lines, current, translations) ==
    IF lines = <<>> THEN translations \o Flush(current)
    ELSE IF Head(lines).n
    THEN NumberedLines(Tail(lines), <<Head(lines).t>>, translations \o Flush(current))
    ELSE NumberedLines(Tail(lines), Append(current, Head(lines).t), translations)

\* lines 435-439: pad with empty strings, truncate
PadTruncate(translations, n) ==
    [k \in 1..n |-> IF k <= Len(translations) THEN translations[k] ELSE ""]

\* OllamaService._translate_batch, lines 396-441, on a response
OllamaParse(lines, n) ==
    LET numbered == NumberedLines(lines, <<>>, <<>>)
        simple == [k \in 1..Len(lines) |-> Raw(lines[k])]
        translations == IF Len(numbered) # n THEN simple ELSE numbered
    IN  IF Len(translations) # n THEN PadTruncate(translations, n)
        ELSE translations

\* OllamaService._translate_batch, lines 368-449: the parsed response, or
\* empty strings when the request failed
OllamaTranslateBatch(batch) ==
    {OllamaParse(r, Len(batch)) : r \in OllamaResponses(batch)}
        \cup {Empties(Len(batch))}

\* [t for t in (str(t).strip() for t in texts) if t]
Clean(texts) == SelectSeq([k \in 1..Len(texts) |-> Strip(texts[k])],
                          LAMBDA t : t # "")

AReturn(list) ==
    /\ a_out' = list
    /\ a_pc' = "done"

\* GoogleTranslateService.translate, lines 77-104
GoogleBegin ==
    /\ a_pc = "start"
    /\ a_service = "google"
    /\ UNCHANGED nonAdapter
    /\ UNCHANGED <<a_service, a_input, a_batch_mode, a_i>>
    /\ IF a_input = <<>>
       THEN AReturn(<<>>) /\ UNCHANGED <<a_texts, a_batch_size>>
       ELSE \E verified \in BOOLEAN :
            IF ~verified
            THEN AReturn(Empties(Len(a_input))) /\ UNCHANGED <<a_texts, a_batch_size>>
            ELSE /\ a_texts' = Clean(a_input)
                 /\ IF Clean(a_input) = <<>>
                    THEN AReturn(<<>>) /\ UNCHANGED a_batch_size
                    ELSE /\ a_batch_size' = Min(a_batch_size, google_limit)
                         /\ IF ~a_batch_mode \/ Len(Clean(a_input)) = 1
                            THEN \E out \in Singles(Clean(a_input)) : AReturn(out)
                            ELSE a_pc' = "loop" /\ UNCHANGED a_out

\* batch = texts[i:i + batch_size]
ABatch == SubSeq(a_texts, a_i + 1, Min(a_i + a_batch_size, Len(a_texts)))

\* GoogleTranslateService.translate, lines 108-153: a pass of the batch loop
GoogleLoop ==
    /\ a_pc = "loop"
    /\ a_service = "google"
    /\ UNCHANGED nonAdapter
    /\ UNCHANGED <<a_service, a_input, a_texts, a_batch_mode, a_batch_size>>
    /\ IF a_i < Len(a_texts)
       THEN /\ \E translations \in GoogleTranslateBatch(ABatch) :
                 IF translations # <<>>
                 THEN a_out' = a_out \o translations
                 ELSE \E out \in Singles(ABatch) : a_out' = a_out \o out
            /\ a_i' = a_i + a_batch_size
            /\ UNCHANGED a_pc
       ELSE /\ a_pc' = "done"
            /\ UNCHANGED <<a_out, a_i>>

\* OllamaService.translate, lines 284-307
OllamaBegin ==
    /\ a_pc = "start"
    /\ a_service = "ollama"
    /\ UNCHANGED nonAdapter
    /\ UNCHANGED <<a_service, a_input, a_batch_mode, a_batch_size, a_i>>
    /\ IF a_input = <<>>
       THEN AReturn(<<>>) /\ UNCHANGED a_texts
       ELSE /\ a_texts' = Clean(a_input)
            /\ IF Clean(a_input) = <<>>
               THEN AReturn(<<>>)
               ELSE IF ~a_batch_mode \/ Len(Clean(a_input)) = 1
               THEN \E out \in Singles(Clean(a_input)) : AReturn(out)
               ELSE a_pc' = "loop" /\ UNCHANGED a_out

\* OllamaService.translate, lines 309-327: a pass of the batch loop
OllamaLoop ==
    /\ a_pc = "loop"
    /\ a_service = "ollama"
    /\ UNCHANGED nonAdapter
    /\ UNCHANGED <<a_service, a_input, a_texts, a_batch_mode, a_batch_size>>
    /\ IF a_i < Len(a_texts)
       THEN /\ \E translations \in OllamaTranslateBatch(ABatch) :
                 IF translations # <<>>
                 THEN a_out' = a_out \o translations
                 ELSE \E out \in Singles(ABatch) : a_out' = a_out \o out
            /\ a_i' = a_i + a_batch_size
            /\ UNCHANGED a_pc
       ELSE /\ a_pc' = "done"
            /\ UNCHANGED <<a_out, a_i>>

InitAdapter ==
    /\ ManagerIdle
    /\ NullIdle
    /\ CleanIdle
    /\ FindIdle
    /\ TaskIdle
    /\ UtilsIdle
    /\ ParserIdle
    /\ a_pc = "start"
    /\ a_service \in {"google", "ollama"}
    /\ \E n \in 0..MaxAdapterTexts : a_input \in [1..n -> AdapterTexts]
    /\ a_texts = <<>>
    /\ a_batch_mode \in BOOLEAN
    /\ a_batch_size \in 1..MaxAdapterBatch
    /\ a_i = 0
    /\ a_out = <<>>

NextAdapter ==
    \/ GoogleBegin
    \/ GoogleLoop
    \/ OllamaBegin
    \/ OllamaLoop

SpecAdapter == InitAdapter /\ [][NextAdapter]_vars

\* ------------------------------------------------------ response parsers

\* A response text is modelled by its tokens: brackets, commas, quoted
\* strings and other words, written with one space between two tokens except
\* after "[" and before "]" and ","
LB == [k |-> "[", v |-> ""]
RB == [k |-> "]", v |-> ""]
Comma == [k |-> ",", v |-> ""]
Quoted(x) == [k |-> "q", v |-> x]
Word(x) == [k |-> "w", v |-> x]

Preamble == Word("Here are the translations:")

Positions(text, kind) == {j \in 1..Len(text) : text[j].k = kind}

MinOf(S) == CHOOSE x \in S : \A y \in S : x <= y

\* re.search(r'\[.*?\]', response_text, re.DOTALL): from the first "[" to the
\* first "]" after it
ListMatch(text) ==
    LET lbs == Positions(text, "[")
        rbs == {j \in Positions(text, "]") : lbs # {} /\ j > MinOf(lbs)}
    IN  IF lbs = {} \/ rbs = {} THEN <<>>
        ELSE SubSeq(text, MinOf(lbs), MinOf(rbs))

RECURSIVE SplitComma(_, _, _)
\* str.split(','): the parts between the commas
SplitComma(text, current, parts) ==
    IF text = <<>> THEN Append(parts, current)
    ELSE IF Head(text).k = ","
    THEN SplitComma(Tail(text), <<>>, Append(parts, current))
    ELSE SplitComma(Tail(text), Append(current, Head(text)), parts)

RECURSIVE Concat(_)
\* adjacent string literals, which Python concatenates
Concat(part) == IF part = <<>> THEN "" ELSE Head(part).v \o Concat(Tail(part))

\* eval(list_str) and the strip of its entries, lines 232-235: a list when
\* list_str is a list display of string literals (a trailing comma allowed);
\* anything else raises, in eval or in t.strip(), and is passed over
EvalList(list_str) ==
    LET content == SubSeq(list_str, 2, Len(list_str) - 1)
        parts == SplitComma(content, <<>>, <<>>)
        n == Len(parts)
        body == IF parts[n] = <<>> THEN SubSeq(parts, 1, n - 1) ELSE parts
        literal(part) == part # <<>> /\ \A j \in 1..Len(part) : part[j].k = "q"
    IN  IF content = <<>> THEN [ok |-> TRUE, val |-> <<>>]
        ELSE IF body # <<>> /\ \A j \in 1..Len(body) : literal(body[j])
        THEN [ok |-> TRUE, val |-> [j \in 1..Len(body) |-> Strip(Concat(body[j]))]]
        ELSE [ok |-> FALSE, val |-> <<>>]

\* lines 243-245: the preamble removed, then all before the first "[", then
\* all after the first "]" (the pattern r'\].*?$' matches from the first "]"
\* to the end of the text)
CleanText(text) ==
    LET t1 == SelectSeq(text, LAMBDA tok : tok # Preamble)
        lbs == Positions(t1, "[")
        t2 == IF lbs = {} THEN t1 ELSE SubSeq(t1, MinOf(lbs), Len(t1))
        rbs == Positions(t2, "]")
    IN  IF rbs = {} THEN t2 ELSE SubSeq(t2, 1, MinOf(rbs))

\* re.findall(arabic_pattern, clean_text), stripped: the quoted strings
Matches(clean) ==
    LET q == SelectSeq(clean, LAMBDA tok : tok.k = "q")
    IN  [j \in 1..Len(q) |-> Strip(q[j].v)]

RECURSIVE StripBrackets(_)
\* the brackets that part.strip(' []\'"') removes at both ends
StripBrackets(part) ==
    IF part = <<>> THEN part
    ELSE IF Head(part).k \in {"[", "]"} THEN StripBrackets(Tail(part))
    ELSE IF part[Len(part)].k \in {"[", "]"}
    THEN StripBrackets(SubSeq(part, 1, Len(part) - 1))
    ELSE part

\* the text of a token, without the quote that strip removes at an end
TokenText(tok, first, last) ==
    CASE tok.k = "q" -> (IF first THEN "" ELSE "'") \o tok.v
                            \o (IF last THEN "" ELSE "'")
      [] tok.k = "w" -> tok.v
      [] OTHER -> tok.k

RECURSIVE PartText(_, _)
PartText(part, first) ==
    IF Len(part) = 1 THEN TokenText(part[1], first, TRUE)
    ELSE TokenText(part[1], first, FALSE)
            \o (IF part[1].k = "[" \/ part[2].k = "]" THEN "" ELSE " ")
            \o PartText(Tail(part), FALSE)

\* part.lower().startswith(('here', 'translation'))
StartsWithHere(part) == part[1].k = "w" /\ part[1].v \in {Preamble.v, "Here:"}

\* lines 259-267: the parts between the commas, cleaned
CommaParts(clean) ==
    LET parts == SplitComma(clean, <<>>, <<>>)
        stripped == [j \in 1..Len(parts) |-> StripBrackets(parts[j])]
        kept == SelectSeq(stripped, LAMBDA part : part # <<>> /\ ~StartsWithHere(part))
    IN  [j \in 1..Len(kept) |-> PartText(kept[j], TRUE)]

\* lines 239-269: the second way of parse_translations_list
Extract(text, expected_count) ==
    LET clean == CleanText(text)
        matches == Matches(clean)
    IN  IF matches = <<>> THEN <<>>
        ELSE IF Len(matches) > expected_count
        THEN SubSeq(matches, 1, expected_count)
        ELSE IF Len(matches) < expected_count THEN CommaParts(clean)
        ELSE matches

\* the parser without its first way, the evaluation of the list
ExtractOnly(text, expected_count) == Extract(text, expected_count)

\* parse_translations_list(response_text, expected_count)
parse_translations_list(text, expected_count) ==
    LET list_match == ListMatch(text)
    IN  IF list_match # <<>> /\ EvalList(list_match).ok
        THEN EvalList(list_match).val
        ELSE Extract(text, expected_count)

\* the action of parse_translations_list
ParseList ==
    /\ p_pc = "list"
    /\ p_out' = parse_translations_list(p_response, p_expected)
    /\ p_pc' = "done"
    /\ UNCHANGED <<p_response, p_lines, p_expected>>
    /\ UNCHANGED nonParser

\* OllamaService._translate_batch, lines 396-441: the parsing of the response
ParseLines ==
    /\ p_pc = "lines"
    /\ p_out' = OllamaParse(p_lines, p_expected)
    /\ p_pc' = "done"
    /\ UNCHANGED <<p_response, p_lines, p_expected>>
    /\ UNCHANGED nonParser

ItemValues == {"a", "b", "c"}

\* the items between brackets and commas
ListTokens(items, quoted, open, close) ==
    (IF open THEN <<LB>> ELSE <<>>)
        \o [j \in 1..(2 * Len(items) - 1) |->
               IF j % 2 = 0 THEN Comma
               ELSE IF quoted THEN Quoted(items[(j + 1) \div 2])
               ELSE Word(items[(j + 1) \div 2])]
        \o (IF close THEN <<RB>> ELSE <<>>)

Before == {<<>>, <<Preamble>>, <<Word("note")>>, <<LB, Word("note"), RB>>}
After == {<<>>, <<Word("note")>>}

LineKinds == {Numbered("A"), Numbered("B"), Plain("A"), Plain("Here")}

InitParser ==
    /\ ManagerIdle
    /\ NullIdle
    /\ CleanIdle
    /\ FindIdle
    /\ TaskIdle
    /\ UtilsIdle
    /\ AdapterIdle
    /\ p_expected \in 1..MaxExpected
    /\ p_out = <<>>
    /\ \/ /\ p_pc = "list"
          /\ p_lines = <<>>
          /\ \E n \in 0..MaxItems : \E items \in [1..n -> ItemValues] :
             \E quoted \in BOOLEAN, open \in BOOLEAN, close \in BOOLEAN :
             \E before \in Before, after \in After :
                p_response = before \o ListTokens(items, quoted, open, close)
                                \o after
       \/ /\ p_pc = "lines"
          /\ p_response = <<>>
          /\ \E n \in 0..(MaxItems + 1) : p_lines \in [1..n -> LineKinds]

NextParser ==
    \/ ParseList
    \/ ParseLines

SpecParser == InitParser /\ [][NextParser]_vars

\* --------------------- TranslationTab.handle_translate, TranslationManager

\* get_service: service_name.lower().replace(' ', '')
Normalized(service_name) ==
    CASE service_name = "Google Translate" -> "googletranslate"
      [] service_name = "OpenAI" -> "openai"
      [] service_name = "DeepSeek" -> "deepseek"
      [] service_name = "Ollama" -> "ollama"

\* TranslationManager.get_service: the class instantiated, "unknown" for the
\* ValueError of an unknown service
GetService(service_name) ==
    IF Normalized(service_name) \in {"google", "googletranslate"} THEN "google"
    ELSE IF Normalized(service_name) \in {"ollama", "ollamaapi"} THEN "ollama"
    ELSE "unknown"

\* GoogleTranslateService.__init__: what it raises ("none": nothing) and
\* the requests it sends
GoogleInit ==
    IF m_configured["Google Translate"]
    THEN [raised |-> "none", requests |-> 0]
    ELSE [raised |-> "not configured", requests |-> 0]

\* OllamaService.__init__ with _check_connection, given whether the server
\* answers
OllamaInit(answers) ==
    IF ~m_configured["Ollama"]
    THEN [raised |-> "not configured", requests |-> 0]
    ELSE IF answers THEN [raised |-> "none", requests |-> 1]
    ELSE [raised |-> "no connection", requests |-> 1]

\* get_service: the instance constructed, or the ValueError of a name it
\* does not know
Construct(service, answers) ==
    CASE service = "google" -> GoogleInit
      [] service = "ollama" -> OllamaInit(answers)
      [] OTHER -> [raised |-> "unknown service", requests |-> 0]

\* the form of the tab when the button is clicked: a layer or field is
\* missing, the name of the new field is refused, or all is there
Forms == {"missing", "invalid", "complete"}

NewTask(service) ==
    [service |-> service, at |-> "start", canceled |-> FALSE, batches |-> 0,
     result |-> "none"]

\* TranslationTab.handle_translate with TranslationManager.translate_column
\* inside it: the task is created and handed to the task manager, which
\* runs it on a thread of its own; whatever translate_column did, it raises
\* nothing and the "Translation Started" box is shown
HandleTranslate ==
    /\ m_requests < MaxRequests
    /\ Len(m_tasks) < MaxTasks
    /\ m_requests' = m_requests + 1
    /\ \E service_name \in Services, form \in Forms, answers \in BOOLEAN :
         IF form # "complete"
         THEN /\ m_last' = [service |-> service_name, created |-> FALSE,
                            requests |-> 0, raised |-> "none",
                            dialog |-> IF form = "missing"
                                       THEN "Missing Information"
                                       ELSE "Invalid Field Name"]
              /\ UNCHANGED m_tasks
         ELSE LET made == Construct(GetService(service_name), answers)
              IN  /\ m_last' = [service |-> service_name,
                                created |-> (made.raised = "none"),
                                requests |-> made.requests,
                                raised |-> made.raised,
                                dialog |-> "Translation Started"]
                  /\ m_tasks' = IF made.raised = "none"
                                THEN Append(m_tasks, NewTask(GetService(service_name)))
                                ELSE m_tasks
    /\ UNCHANGED <<m_configured, m_editing, m_owner, m_field, m_pending,
                   m_committed, m_foreign>>
    /\ UNCHANGED nonManager

\* the task t is executing run
Running(t) == m_tasks[t].at # "done"

\* an edit operation of task t on the layer, noted when the open session was
\* started by another task that is still running
Noted(t, op) ==
    IF m_editing /\ m_owner # t /\ m_owner # 0 /\ Running(m_owner)
    THEN m_foreign \cup {op} ELSE m_foreign

\* layer.rollBack() called by task t
TaskRollBack(t) ==
    /\ m_editing' = FALSE
    /\ m_owner' = 0
    /\ m_pending' = {}
    /\ m_field' = IF m_field = "pending" THEN "none" ELSE m_field
    /\ m_foreign' = Noted(t, "rollBack")

Ended(t, r) == m_tasks' = [m_tasks EXCEPT ![t].at = "done", ![t].result = r]

Goes(t, to) == m_tasks' = [m_tasks EXCEPT ![t].at = to]

\* run, lines 526-563: the snapshot; a task with nothing to translate
\* returns True before it opens the session
Snapshotted(t) ==
    \E empty \in BOOLEAN :
        IF empty THEN Ended(t, "succeeded") ELSE Goes(t, "begin")

ManagerFrame ==
    /\ UNCHANGED <<m_requests, m_last, m_configured>>
    /\ UNCHANGED nonManager

\* run, lines 510-579: the fields (the target field created in a session of
\* its own when the layer has none), the snapshot, startEditing
TaskPrepare ==
    \E t \in 1..Len(m_tasks) :
        /\ m_tasks[t].at = "start"
        /\ ManagerFrame
        /\ UNCHANGED <<m_pending, m_committed>>
        /\ IF m_field = "none"
           THEN IF m_editing
                THEN \* startEditing() returned False
                     /\ Ended(t, "failed")
                     /\ m_foreign' = Noted(t, "startEditing")
                     /\ UNCHANGED <<m_editing, m_owner, m_field>>
                ELSE \E ok \in BOOLEAN :
                     IF ok
                     THEN /\ m_field' = "committed"
                          /\ Snapshotted(t)
                          /\ UNCHANGED <<m_editing, m_owner, m_foreign>>
                     ELSE \* commitChanges() returned False: raised past
                          \* the inner handler, the session stays open
                          /\ m_field' = "pending"
                          /\ m_editing' = TRUE
                          /\ m_owner' = t
                          /\ Ended(t, "failed")
                          /\ UNCHANGED m_foreign
           ELSE /\ Snapshotted(t)
                /\ UNCHANGED <<m_editing, m_owner, m_field, m_foreign>>

\* run, lines 576-578: startEditing once for all changes
TaskBegin ==
    \E t \in 1..Len(m_tasks) :
        /\ m_tasks[t].at = "begin"
        /\ ManagerFrame
        /\ UNCHANGED <<m_pending, m_committed, m_field>>
        /\ m_foreign' = Noted(t, "startEditing")
        /\ IF m_editing
           THEN /\ Ended(t, "failed")
                /\ UNCHANGED <<m_editing, m_owner>>
           ELSE \E ok \in BOOLEAN :
                IF ok
                THEN /\ m_editing' = TRUE
                     /\ m_owner' = t
                     /\ Goes(t, "loop")
                ELSE /\ Ended(t, "failed")
                     /\ UNCHANGED <<m_editing, m_owner>>

\* run, lines 584-662: a batch, from the loop head to the end of the pass
TaskBatch ==
    \E t \in 1..Len(m_tasks) :
        /\ m_tasks[t].at = "loop"
        /\ ManagerFrame
        /\ UNCHANGED m_committed
        /\ IF m_tasks[t].canceled
           THEN /\ TaskRollBack(t)
                /\ Ended(t, "cancelled")
           ELSE \E outcome \in {"translated", "error", "403"} :
                \E more \in {m \in BOOLEAN : m => m_tasks[t].batches + 1 < MaxBatches} :
                CASE outcome = "403" ->
                        /\ TaskRollBack(t)
                        /\ Ended(t, "failed")
                  [] outcome = "error" ->
                        /\ m_tasks' = [m_tasks EXCEPT
                              ![t].batches = @ + 1,
                              ![t].at = IF more THEN "loop" ELSE "commit"]
                        /\ UNCHANGED <<m_editing, m_owner, m_pending, m_field,
                                       m_foreign>>
                  [] outcome = "translated" ->
                        \* changeAttributeValue, refused outside a session
                        /\ m_pending' = IF m_editing THEN m_pending \cup {t}
                                        ELSE m_pending
                        /\ m_foreign' = Noted(t, "changeAttributeValue")
                        /\ m_tasks' = [m_tasks EXCEPT
                              ![t].batches = @ + 1,
                              ![t].at = IF more THEN "loop" ELSE "commit"]
                        /\ UNCHANGED <<m_editing, m_owner, m_field>>

\* run, lines 673-674 (and 691-702 when it fails): commitChanges
TaskCommit ==
    \E t \in 1..Len(m_tasks) :
        /\ m_tasks[t].at = "commit"
        /\ ManagerFrame
        /\ \E ok \in (IF m_editing THEN BOOLEAN ELSE {FALSE}) :
           IF ok
           THEN /\ m_committed' = m_committed \cup m_pending
                /\ m_pending' = {}
                /\ m_field' = IF m_field = "pending" THEN "committed" ELSE m_field
                /\ m_editing' = FALSE
                /\ m_owner' = 0
                /\ m_foreign' = Noted(t, "commitChanges")
                /\ Goes(t, "verify")
           ELSE /\ TaskRollBack(t)
                /\ Ended(t, "failed")
                /\ UNCHANGED m_committed

\* run, lines 677-685 (and 691-702 on a mismatch): the final verification
TaskVerify ==
    \E t \in 1..Len(m_tasks) :
        /\ m_tasks[t].at = "verify"
        /\ ManagerFrame
        /\ UNCHANGED m_committed
        /\ \E same \in BOOLEAN :
           IF same
           THEN /\ Ended(t, "succeeded")
                /\ UNCHANGED <<m_editing, m_owner, m_pending, m_field, m_foreign>>
           ELSE /\ TaskRollBack(t)
                /\ Ended(t, "failed")

\* QgsTask.cancel() on a task
TaskCancel ==
    \E t \in 1..Len(m_tasks) :
        /\ Running(t)
        /\ ~m_tasks[t].canceled
        /\ m_tasks' = [m_tasks EXCEPT ![t].canceled = TRUE]
        /\ ManagerFrame
        /\ UNCHANGED <<m_editing, m_owner, m_field, m_pending, m_committed,
                       m_foreign>>

InitManager ==
    /\ NullIdle
    /\ CleanIdle
    /\ FindIdle
    /\ TaskIdle
    /\ UtilsIdle
    /\ AdapterIdle
    /\ ParserIdle
    /\ m_requests = 0
    /\ m_last = [service |-> "none", created |-> FALSE, requests |-> 0,
                 raised |-> "none", dialog |-> "none"]
    /\ m_configured \in [Services -> BOOLEAN]
    /\ m_tasks = <<>>
    /\ m_editing = FALSE
    /\ m_owner = 0
    /\ m_field \in {"none", "committed"}
    /\ m_pending = {}
    /\ m_committed = {}
    /\ m_foreign = {}

NextManager ==
    \/ HandleTranslate
    \/ TaskPrepare
    \/ TaskBegin
    \/ TaskBatch
    \/ TaskCommit
    \/ TaskVerify
    \/ TaskCancel

SpecManager == InitManager /\ [][NextManager]_vars

\* ------------------------------------------------- cleaning.ColumnCleaner

\* Python floats of the null percentage: a positive double is kept as
\* [bits, exp], the 53 bits of its significand, first bit 1, and the
\* exponent of that first bit; zero is [bits |-> <<>>, exp |-> 0]
Mantissa == 53

Zero == [bits |-> <<>>, exp |-> 0]

\* bits with one added at the last place (one digit longer when every bit
\* was 1)
Increment(bits) ==
    LET zeros == {k \in 1..Len(bits) : bits[k] = 0}
    IN  IF zeros = {} THEN <<1>> \o [k \in 1..Len(bits) |-> 0]
        ELSE LET last == CHOOSE k \in zeros : \A j \in zeros : j <= k
             IN  [k \in 1..Len(bits) |->
                    IF k < last THEN bits[k] ELSE IF k = last THEN 1 ELSE 0]

\* bits without the zeros before its first 1
Normal(bits) ==
    LET ones == {k \in 1..Len(bits) : bits[k] = 1}
    IN  IF ones = {} THEN <<>>
        ELSE LET first == CHOOSE k \in ones : \A j \in ones : k <= j
             IN  SubSeq(bits, first, Len(bits))

\* round to nearest, ties to even: bits is an exact binary number whose first
\* bit is 1 and has exponent exp, sticky tells of a nonzero rest below it
Round(bits, exp, sticky) ==
    IF Len(bits) <= Mantissa
    THEN [bits |-> bits \o [k \in 1..(Mantissa - Len(bits)) |-> 0], exp |-> exp]
    ELSE LET kept == SubSeq(bits, 1, Mantissa)
             guard == bits[Mantissa + 1]
             rest == sticky \/ \E k \in (Mantissa + 2)..Len(bits) : bits[k] = 1
             up == guard = 1 /\ (rest \/ kept[Mantissa] = 1)
             sum == Increment(kept)
         IN  IF ~up THEN [bits |-> kept, exp |-> exp]
             ELSE IF Len(sum) = Mantissa THEN [bits |-> sum, exp |-> exp]
             ELSE [bits |-> SubSeq(sum, 1, Mantissa), exp |-> exp + 1]

RECURSIVE Power2(_)
Power2(k) == IF k = 0 THEN 1 ELSE 2 * Power2(k - 1)

\* the binary digits of a natural number, most significant first
RECURSIVE Binary(_)
Binary(x) == IF x = 0 THEN <<>> ELSE Binary(x \div 2) \o <<x % 2>>

\* bits with zeros put before them up to the length w
Padded(bits, w) == [k \in 1..(w - Len(bits)) |-> 0] \o bits

\* the binary digits worked on at a time
Limb == 13

\* the binary digits of r / n after the point for 0 <= r < n, count limbs of
\* them, and the remainder after them
RECURSIVE Quotient(_, _, _)
Quotient(r, n, count) ==
    IF count = 0 THEN [bits |-> <<>>, rem |-> r]
    ELSE LET next == Quotient((r * Power2(Limb)) % n, n, count - 1)
         IN  [bits |-> Padded(Binary((r * Power2(Limb)) \div n), Limb) \o next.bits,
              rem |-> next.rem]

\* null_count / total_features for 0 <= k <= n, 0 < n < 2^17: the digits
\* of six limbs hold the 54 digits after the first 1
TrueDivide(k, n) ==
    IF k = 0 THEN Zero
    ELSE IF k = n THEN Round(<<1>>, 0, FALSE)
    ELSE LET q == Quotient(k, n, 6)
             digits == Normal(q.bits)
         IN  Round(digits, -(Len(q.bits) - Len(digits) + 1), q.rem # 0)

\* the value of the binary digits
RECURSIVE Value(_)
Value(bits) ==
    IF bits = <<>> THEN 0
    ELSE 2 * Value(SubSeq(bits, 1, Len(bits) - 1)) + bits[Len(bits)]

\* bits * c + carry for a small c, as binary digits, Limb digits at a time
RECURSIVE TimesSmall(_, _, _)
TimesSmall(bits, c, carry) ==
    IF bits = <<>> THEN Binary(carry)
    ELSE LET w == IF Len(bits) < Limb THEN Len(bits) ELSE Limb
             low == Value(SubSeq(bits, Len(bits) - w + 1, Len(bits))) * c + carry
         IN  TimesSmall(SubSeq(bits, 1, Len(bits) - w), c, low \div Power2(w))
                 \o Padded(Binary(low % Power2(w)), w)

\* x * c for a double x and a small whole c
Multiply(x, c) ==
    IF x = Zero THEN Zero
    ELSE LET product == Normal(TimesSmall(x.bits, c, 0))
         IN  Round(product, x.exp + (Len(product) - Mantissa), FALSE)

\* int(x) for a double x below 2^31
Floor(x) ==
    IF x = Zero \/ x.exp < 0 THEN 0 ELSE Value(SubSeq(x.bits, 1, x.exp + 1))

\* null_percentage = (null_count / total_features) * 100
NullPercentage(k, n) == Multiply(TrueDivide(k, n), 100)

\* null_percentage >= threshold, for a whole threshold
AtLeast(x, t) == Floor(x) >= t

\* the test without the rounding of the floats
NullPercentageExact(k, n, t) == k * 100 >= t * n

\* if null_percentage >= threshold (line 89)
OverThreshold(k, n, t) == AtLeast(NullPercentage(k, n), t)

\* the values of the selected field: nulls features without a value, NULL and
\* '' in turn, then features with a value
FieldValues(n, nulls) ==
    [f \in 1..n |-> IF f > nulls THEN "a" ELSE IF f % 2 = 1 THEN NULL ELSE ""]

\* value in [None, "", QVariant()]
IsNullValue(v) == v \in {NULL, ""}

\* the thresholds the tab lets through (null_cleaning_tab.py, lines 197-200),
\* the whole ones
Thresholds == 0..MaxThreshold

\* lines 66-76: the layer, the edit session, the field, the feature count
NullStart ==
    /\ n_pc = "start"
    /\ IF ~n_vector
       THEN /\ n_pc' = "done"
            /\ n_return' = "False"
            /\ UNCHANGED n_editable
       ELSE /\ IF n_editable THEN UNCHANGED n_editable
               ELSE \E ok \in BOOLEAN : n_editable' = ok
            /\ IF ~n_has_field
               THEN n_pc' = "done" /\ n_return' = "raised"
               ELSE IF Len(n_values) = 0
               THEN n_pc' = "done" /\ n_return' = "False"
               ELSE n_pc' = "count" /\ UNCHANGED n_return
    /\ UNCHANGED <<n_vector, n_has_field, n_values, n_threshold, n_null_count,
                   n_deleted>>
    /\ UNCHANGED nonNull

\* lines 78-85: the null values of the field are counted
NullCount ==
    /\ n_pc = "count"
    /\ n_null_count' = Cardinality({f \in 1..Len(n_values) : IsNullValue(n_values[f])})
    /\ n_pc' = "decide"
    /\ UNCHANGED <<n_vector, n_has_field, n_editable, n_values, n_threshold,
                   n_deleted, n_return>>
    /\ UNCHANGED nonNull

\* lines 87-105: the percentage, the test, provider.deleteAttributes
NullDecide ==
    /\ n_pc = "decide"
    /\ IF OverThreshold(n_null_count, Len(n_values), n_threshold)
       THEN n_deleted' = TRUE /\ n_return' = "True"
       ELSE n_return' = "False" /\ UNCHANGED n_deleted
    /\ n_pc' = "done"
    /\ UNCHANGED <<n_vector, n_has_field, n_editable, n_values, n_threshold,
                   n_null_count>>
    /\ UNCHANGED nonNull

InitNull ==
    /\ TaskIdle
    /\ UtilsIdle
    /\ AdapterIdle
    /\ ParserIdle
    /\ ManagerIdle
    /\ CleanIdle
    /\ FindIdle
    /\ n_pc = "start"
    /\ \/ \* small layers, of any kind
          /\ n_vector \in BOOLEAN
          /\ n_has_field \in BOOLEAN
          /\ n_editable \in BOOLEAN
          /\ \E n \in 0..MaxFeatures, nulls \in 0..MaxFeatures :
                nulls <= n /\ n_values = FieldValues(n, nulls)
       \/ \* large vector layers that have the field, in edit mode
          /\ n_vector = TRUE
          /\ n_has_field = TRUE
          /\ n_editable = TRUE
          /\ \E n \in 0..MaxNullFeatures, nulls \in 0..MaxNullFeatures :
                nulls <= n /\ n_values = FieldValues(n, nulls)
    /\ n_threshold \in Thresholds
    /\ n_null_count = 0
    /\ n_deleted = FALSE
    /\ n_return = "none"

NextNull ==
    \/ NullStart
    \/ NullCount
    \/ NullDecide

SpecNull == InitNull /\ [][NextNull]_vars

\* ----------------------------------------- CleaningManager.clean_layer

\* the operation types clean_layer knows (lines 311, 313, 319)
OperationTypes == {"remove_empty_columns", "remove_null_columns", "find_replace"}

\* clean_layer, lines 302-308: the test of the layer, startEditing (its
\* result is not looked at), success = True
CleanStart ==
    /\ c_pc = "start"
    /\ UNCHANGED nonClean
    /\ UNCHANGED <<c_vector, c_can_edit, c_operations, c_k, c_reports,
                   c_deleted, c_pending, c_written, c_end>>
    /\ IF ~c_vector
       THEN /\ c_pc' = "done"
            /\ c_return' = "False"
            /\ UNCHANGED <<c_editing, c_success>>
       ELSE /\ c_editing' = (c_editing \/ c_can_edit)
            /\ c_success' = TRUE
            /\ c_pc' = "operations"
            /\ UNCHANGED c_return

\* success &= value
AndAssign(success, value) == success /\ value

\* what an operation of clean_layer does to the layer and gives back: a
\* column operation deletes columns at the provider and returns True, or
\* finds none to delete and returns False (lines 45-61, 89-105);
\* find_and_replace_values writes count values into the edit session, which
\* takes them only when it is open, and returns count (lines 266-275)
Operation(type, outcome) ==
    IF type = "find_replace"
    THEN /\ c_pending' = IF c_editing THEN c_pending + outcome ELSE c_pending
         /\ c_success' = AndAssign(c_success, outcome > 0)
         /\ c_reports' = Append(c_reports,
                                IF outcome > 0 THEN "success" ELSE "failure")
         /\ UNCHANGED c_deleted
    ELSE /\ c_deleted' = c_deleted + outcome
         /\ c_success' = AndAssign(c_success, outcome > 0)
         /\ c_reports' = Append(c_reports,
                                IF outcome > 0 THEN "success" ELSE "failure")
         /\ UNCHANGED c_pending

\* what an operation can give back: the columns it deleted (one at most for
\* remove_null_columns), the values it replaced
Outcomes(type) == IF type = "remove_null_columns" THEN 0..1 ELSE 0..MaxReplaced

\* clean_layer, lines 309-342: one operation of the list; an exception of
\* the operation is logged and sets success to False
CleanOperation ==
    /\ c_pc = "operations"
    /\ c_k < Len(c_operations)
    /\ UNCHANGED nonClean
    /\ UNCHANGED <<c_pc, c_vector, c_can_edit, c_editing, c_operations,
                   c_written, c_end, c_return>>
    /\ c_k' = c_k + 1
    /\ \/ \E outcome \in Outcomes(c_operations[c_k + 1]) :
             Operation(c_operations[c_k + 1], outcome)
       \/ /\ c_success' = FALSE
          /\ c_reports' = Append(c_reports, "raised")
          /\ UNCHANGED <<c_deleted, c_pending>>

\* layer.commitChanges(): False when the layer is not in edit mode or the
\* provider refuses a pending change; the session then stays as it is
CommitChanges(ok) ==
    IF c_editing /\ ok
    THEN /\ c_editing' = FALSE
         /\ c_written' = c_written + c_pending
         /\ c_pending' = 0
    ELSE UNCHANGED <<c_editing, c_written, c_pending>>

\* layer.rollBack()
RollBack ==
    /\ c_editing' = FALSE
    /\ c_pending' = 0
    /\ UNCHANGED c_written

\* clean_layer, lines 344-349: commitChanges or rollBack, neither result is
\* looked at, return success
CleanEnd ==
    /\ c_pc = "operations"
    /\ c_k = Len(c_operations)
    /\ UNCHANGED nonClean
    /\ UNCHANGED <<c_vector, c_can_edit, c_operations, c_k, c_reports,
                   c_success, c_deleted>>
    /\ IF c_success
       THEN /\ \E ok \in (IF c_pending > 0 THEN BOOLEAN ELSE {TRUE}) :
                 CommitChanges(ok)
            /\ c_end' = "commit"
       ELSE /\ RollBack
            /\ c_end' = "rollback"
    /\ c_return' = IF c_success THEN "True" ELSE "False"
    /\ c_pc' = "done"

\* the lists of at most n operation types
OperationLists(n) == UNION {[1..k -> OperationTypes] : k \in 0..n}

InitClean ==
    /\ TaskIdle
    /\ UtilsIdle
    /\ AdapterIdle
    /\ ParserIdle
    /\ ManagerIdle
    /\ NullIdle
    /\ FindIdle
    /\ c_pc = "start"
    /\ c_vector \in BOOLEAN
    /\ c_can_edit \in BOOLEAN
    /\ c_editing \in BOOLEAN
    /\ c_editing => c_can_edit
    /\ c_operations \in OperationLists(MaxOperations)
    /\ c_k = 0
    /\ c_reports = <<>>
    /\ c_success = TRUE
    /\ c_deleted = 0
    /\ c_pending = 0
    /\ c_written = 0
    /\ c_end = "none"
    /\ c_return = "none"

NextClean ==
    \/ CleanStart
    \/ CleanOperation
    \/ CleanEnd

SpecClean == InitClean /\ [][NextClean]_vars

\* ---------------------------- ValueCleaner.find_and_replace_values

\* strings are sequences of characters
Digits == {"0", "7"}
Alphabet == Digits \cup {"x"}
Strings(n) == UNION {[1..k -> Alphabet] : k \in 0..n}

\* s.lstrip('0')
LStripZeros(s) ==
    LET lead == {k \in 0..Len(s) : \A j \in 1..k : s[j] = "0"}
        most == CHOOSE k \in lead : \A j \in lead : j <= k
    IN  SubSeq(s, most + 1, Len(s))

\* re.compile(r'\d+').search(s): match.group(), <<>> when there is no match
SearchDigits(s) ==
    LET starts == {p \in 1..Len(s) : s[p] \in Digits}
    IN  IF starts = {} THEN <<>>
        ELSE LET first == CHOOSE p \in starts : \A q \in starts : p <= q
                 ends == {q \in first..Len(s) :
                              \A j \in first..q : s[j] \in Digits}
                 last == CHOOSE q \in ends : \A r \in ends : r <= q
             IN  SubSeq(s, first, last)

\* lines 131-144 and 195-210: a value after the pattern and the stripping
Extracted(s) ==
    LET match == IF f_pattern THEN SearchDigits(s) ELSE <<>>
        found == IF match # <<>> THEN match ELSE s
    IN  IF f_strip THEN LStripZeros(found) ELSE found

\* lines 124-146: the lookup table as pairs of key and replacement; a later
\* feature of the reference layer replaces an earlier one with the same key
LookupTable(ref) ==
    {<<Extracted(ref[k].find), ref[k].replace>> : k \in
        {k \in 1..Len(ref) : \A j \in (k + 1)..Len(ref) :
                                 Extracted(ref[j].find) # Extracted(ref[k].find)}}

\* value in lookup
InLookup(value) == \E entry \in f_lookup : entry[1] = value

\* lookup[value]
LookupValue(value) == (CHOOSE entry \in f_lookup : entry[1] = value)[2]

\* lines 222-230: str(int(new_value)).zfill(pad_length), new_value itself
\* when it is not a number
PadZeros(s) ==
    IF s = <<>> \/ \E j \in 1..Len(s) : s[j] \notin Digits
    THEN s
    ELSE LET stripped == LStripZeros(s)
             num_str == IF stripped = <<>> THEN <<"0">> ELSE stripped
         IN  [j \in 1..(pad_length - Len(num_str)) |-> "0"] \o num_str

\* lines 116-182: startEditing (its result is not looked at), the lookup
\* table, the new column
FindStart ==
    /\ f_pc = "start"
    /\ UNCHANGED nonFind
    /\ UNCHANGED <<f_can_edit, f_source, f_ref, f_pattern, f_strip, f_pad,
                   f_new_column, f_k, f_written, f_return>>
    /\ f_editing' = (f_editing \/ f_can_edit)
    /\ f_lookup' = LookupTable(f_ref)
    /\ f_values' = IF f_new_column
                   THEN [f \in 1..Len(f_source) |-> NULL]
                   ELSE f_source
    /\ f_count' = 0
    /\ f_pc' = "features"

\* layer.changeAttributeValue(fid, idx, value): False, and nothing changed,
\* when the layer is not in edit mode
ChangeAttributeValue(fid, value) ==
    IF f_editing
    THEN /\ f_values' = [f_values EXCEPT ![fid] = value]
         /\ f_written' = f_written \cup {fid}
    ELSE UNCHANGED <<f_values, f_written>>

\* lines 189-272: one feature of the source layer
FindFeature ==
    /\ f_pc = "features"
    /\ f_k < Len(f_source)
    /\ UNCHANGED nonFind
    /\ UNCHANGED <<f_pc, f_can_edit, f_editing, f_source, f_ref, f_pattern,
                   f_strip, f_pad, f_new_column, f_lookup, f_return>>
    /\ f_k' = f_k + 1
    /\ LET fid == f_k + 1
           value == Extracted(f_source[fid])
           matched == \/ f_pattern /\ SearchDigits(f_source[fid]) # <<>>
                      \/ InLookup(value)
           new_value == IF InLookup(value) THEN LookupValue(value) ELSE NULL
           padded == IF matched /\ f_pad /\ new_value # NULL
                     THEN PadZeros(new_value) ELSE new_value
       IN  IF matched /\ padded # NULL /\ padded # <<>>
           THEN /\ ChangeAttributeValue(fid, padded)
                /\ f_count' = f_count + 1
           ELSE UNCHANGED <<f_values, f_written, f_count>>

\* lines 274-275: return count
FindEnd ==
    /\ f_pc = "features"
    /\ f_k = Len(f_source)
    /\ UNCHANGED nonFind
    /\ UNCHANGED <<f_can_edit, f_editing, f_source, f_ref, f_pattern, f_strip,
                   f_pad, f_new_column, f_lookup, f_k, f_values, f_written,
                   f_count>>
    /\ f_return' = f_count
    /\ f_pc' = "done"

\* the features of a reference layer: a find value and a replace value
RefFeatures ==
    [find : Strings(MaxStringLen), replace : {<<>>, <<"7">>}]

InitFind ==
    /\ TaskIdle
    /\ UtilsIdle
    /\ AdapterIdle
    /\ ParserIdle
    /\ ManagerIdle
    /\ NullIdle
    /\ CleanIdle
    /\ f_pc = "start"
    /\ f_can_edit \in BOOLEAN
    /\ f_pattern \in BOOLEAN
    /\ f_strip \in BOOLEAN
    /\ \/ \* one feature, every option
          /\ f_editing \in BOOLEAN
          /\ f_editing => f_can_edit
          /\ f_pad \in BOOLEAN
          /\ f_new_column \in BOOLEAN
          /\ f_source \in UNION {[1..n -> Strings(MaxStringLen)] : n \in 0..1}
       \/ \* more features, written into the source field as they are
          /\ f_editing = FALSE
          /\ f_pad = FALSE
          /\ f_new_column = FALSE
          /\ f_source \in UNION {[1..n -> Strings(MaxStringLen)] :
                                     n \in 0..MaxFindFeatures}
    /\ f_ref \in UNION {[1..n -> RefFeatures] : n \in 0..MaxRefFeatures}
    /\ f_lookup = {}
    /\ f_k = 0
    /\ f_values = f_source
    /\ f_written = {}
    /\ f_count = 0
    /\ f_return = -1

NextFind ==
    \/ FindStart
    \/ FindFeature
    \/ FindEnd

SpecFind == InitFind /\ [][NextFind]_vars

\* ---------------------------------------------------------------- claims

RECURSIVE Flatten(_)
Flatten(ss) == IF ss = <<>> THEN <<>> ELSE Head(ss) \o Flatten(Tail(ss))

Ceil(a, b) == (a + b - 1) \div b

Times(ss, b) == Cardinality({k \in 1..Len(ss) : ss[k] = b})

\* C1: when the final commit of run fails, the session is rolled back, the
\* task ends Failed, and the committed target values and the feature count
\* are those of the start of the task (a target field created by the task
\* stays, holding no value).
CommitFailureRestoresLayer ==
    (pc = "done" /\ commitFailed) =>
        /\ result = "False"
        /\ exception = "commit"
        /\ ~editing
        /\ buffer = NoBuffer
        /\ Len(target) = Len(target0)
        /\ target = target0

CommitFailedAfterWrites ==
    pc = "done" /\ commitFailed /\ translated # {} /\ result = "False"

\* C2: when run has returned, every edit session it started has been ended,
\* and pending changes exist only inside an edit session.
EditSessionAlwaysEnded ==
    /\ (pc = "done") => (started = 0 /\ ~editing)
    /\ (buffer # NoBuffer) => editing

\* C3: a cancellation requested while batches are processed makes run return
\* False with the session rolled back and no value of this run committed.
CancelDiscardsRun ==
    (pc = "done" /\ cancelPc \in {"chunk", "batch", "call"}) =>
        /\ result = "False"
        /\ ~editing
        /\ target = target0

ExpectedBatches(n, b) ==
    (n \div chunk_size) * Ceil(chunk_size, b) + Ceil(n % chunk_size, b)

SecondRunSkipsPopulated ==
    \A f \in populated :
        /\ f \notin Range(Flatten(calls))
        /\ f \notin Range(feature_ids)
        /\ buffer[f] = NoChange
        /\ target[f] = target0[f]

SecondRunTranslatesTheRest ==
    /\ runs = 2
    /\ populated # {}
    /\ pc = "done"
    /\ result = "True"
    /\ calls # <<>>
    /\ translated # {}

\* the features run is to translate when no skip value is configured
ExpectedSnapshot ==
    {f \in 1..Len(source) : Strip(source[f]) # "" /\ Strip(target0[f]) = ""}

SnapshotTaken ==
    \/ pc \in {"begin", "chunk", "batch", "call", "commit"}
    \/ pc = "done" /\ exception \notin {"source_missing", "field_edit", "add_field",
                                      "key"}

\* C8: with no skip values, total_features is the number of features with a
\* non-blank source and a blank target, and the target of every other
\* feature is left as it was.
SnapshotCountAndFrame ==
    (skip_values = {}) =>
        /\ SnapshotTaken => total_features = Cardinality(ExpectedSnapshot)
        /\ \A f \in (1..Len(source)) \ ExpectedSnapshot :
              buffer[f] = NoChange /\ target[f] = target0[f]

TwoOfThreeTranslated ==
    /\ skip_values = {}
    /\ pc = "done"
    /\ result = "True"
    /\ Len(source) = 3
    /\ \E f \in 1..3 : source[f] = NULL /\ target[f] = "old"
    /\ total_features = 2
    /\ translated_count = 2
    /\ Cardinality({f \in 1..3 : target[f] = "T"}) = 2

\* C9 as claimed, for TranslationTask.run: a batch is left behind after a
\* failed call only when 1 + max_retries calls have been made for it.
TaskRetriesFailedBatch ==
    \A b \in abandoned : Times(calls, b) = max_retries + 1

\* C5 as claimed: translate of GoogleTranslateService and of OllamaService
\* returns, for a non-empty list of texts, one entry per text, entry k the
\* translation of text k or the empty string.
OneEntryPerInputText ==
    (a_pc = "done" /\ a_input # <<>>) =>
        /\ Len(a_out) = Len(a_input)
        /\ \A k \in 1..Len(a_out) : a_out[k] \in {"", Translation(a_input[k])}

\* C6 as claimed: translate_with_google and translate_with_llm return one
\* entry per text, so that translate_column writes to a feature nothing but
\* the translation of its own text.
OwnTranslationWritten ==
    (u_service \in {"Google Translate", "OpenAI", "DeepSeek"}) =>
        /\ (u_pc = "write") => Len(u_translations) = Len(u_texts)
        /\ \A f \in 1..Len(u_target) : u_target[f] \in {NoValue, Tr(u_source[f])}

\* C10: translate_with_ollama starts every batch with retries = 0 and counts
\* in it the failed attempts of that batch only, at most max_retries; when it
\* returns, it returns the translation of every text, in the order of the
\* texts.
RetriesPerBatchAndFullResult ==
    (u_service \in {"direct", "Ollama"}) =>
        /\ (u_pc = "try") => (u_retries = u_attempts /\ u_retries <= max_retries)
        /\ u_log.retries <= max_retries
        /\ (u_return = "returned" \/ u_pc = "write") =>
               u_translations = [k \in 1..Len(u_texts) |-> Tr(u_texts[k])]

SecondBatchRetriedTwice ==
    /\ u_service = "direct"
    /\ u_return = "returned"
    /\ Len(u_texts) = MaxOllamaTexts
    /\ u_batch_size = MaxOllamaBatch
    /\ u_log = [batches |-> 1, at |-> u_batch_size + 1, retries |-> max_retries]
    /\ Len(u_translations) = MaxOllamaTexts

\* C11 as claimed: when the call of the service for a batch fails, every
\* feature id of the batch is recorded as failed and the run goes on with the
\* next batch (or, after the last one, with the commit): the edit session
\* stays open and the run does not end there.
FailedBatchIsRecordedAndSkipped ==
    [][(pc = "call" /\ failed_features' = failed_features \o batch_ids)
          => (pc' \in {"batch", "chunk", "commit"} /\ editing' = editing)]_vars

\* C12 as claimed: when the feature count read after the commit differs from
\* the count recorded before translating, run ends Failed and the layer is
\* rolled back: no value written by this run is left applied.
CountMismatchRollsBack ==
    (pc = "done" /\ final_count # 0 /\ final_count # initial_count) =>
        /\ result = "False"
        /\ exception # "none"
        /\ ~editing
        /\ target = target0

\* the numbers of items the ways of parsing tried on the response yield
Yields ==
    IF p_lines # <<>>
    THEN {Len(NumberedLines(p_lines, <<>>, <<>>)), Len(p_lines)}
    ELSE IF ListMatch(p_response) # <<>> /\ EvalList(ListMatch(p_response)).ok
    THEN {Len(EvalList(ListMatch(p_response)).val)}
    ELSE {Len(Matches(CleanText(p_response))),
          Len(CommaParts(CleanText(p_response)))}

\* C13 as claimed: a parser returns a list of exactly expected_count strings
\* only when the response yields that many, never by padding or truncating
\* what it yields, and returns no partial list otherwise (the empty list is
\* taken for the 'insufficient' signal).
ParserNeverPadsNorTruncates ==
    (p_pc = "done") =>
        /\ (Len(p_out) = p_expected) => (p_expected \in Yields)
        /\ (Len(p_out) # p_expected) => (p_out = <<>>)

\* the quoted strings of text[lo..hi] when it is a well-formed bracketed list
ListBody(text, lo, hi) == SubSeq(text, lo + 1, hi - 1)

WellFormedList(text, lo, hi) ==
    /\ text[lo] = LB
    /\ text[hi] = RB
    /\ Len(ListBody(text, lo, hi)) % 2 = 1
    /\ \A k \in 1..Len(ListBody(text, lo, hi)) :
          ListBody(text, lo, hi)[k].k = (IF k % 2 = 1 THEN "q" ELSE ",")

ListItems(text, lo, hi) ==
    [k \in 1..((hi - lo) \div 2) |-> ListBody(text, lo, hi)[2 * k - 1].v]

AdapterCallNeverRaises ==
    (u_service = "direct" /\ u_attempts > 0) => (u_return # "raised")

\* C17 as claimed: what finished reports tells what the run did: plain
\* success only when every feature of the snapshot was translated and its
\* value written, and a failure or a cancellation only when the run left no
\* value in the layer.
ReportTellsTheOutcome ==
    /\ (report = "completed successfully") =>
          \A f \in Range(feature_ids) : f \in translated /\ Truthy(target[f])
    /\ (report \in {"failed", "cancelled"}) => (target = target0)

\* the phases of run
Phase(at) ==
    CASE at \in {"start", "snapshot", "begin"} -> 1     \* Preparing
      [] at \in {"chunk", "batch", "call"} -> 2         \* Running
      [] at = "commit" -> 3                             \* Committing
      [] OTHER -> 4                                     \* terminal

Cancelled == pc = "done" /\ result = "False" /\ exception = "none"

\* C19: within a run the phases never go backwards; the service is called
\* only in Running, on features of the complete snapshot; the commit is
\* entered only when every batch has been handed to the service, is attempted
\* once and ends the run; a run ends Succeeded, Failed or Cancelled, and
\* Cancelled only from a loop head of Running.
PhasesInOrder ==
    /\ [](/\ (calls # <<>>) =>
                /\ Phase(pc) >= 2
                /\ total_features = Len(feature_ids)
                /\ Range(Flatten(calls)) \subseteq Range(feature_ids)
          /\ (pc = "commit") => (Flatten(calls) = feature_ids)
          /\ (pc = "done") =>
                /\ result \in {"True", "False"}
                /\ (result = "True") => (exception = "none")
                /\ Cancelled => canceled)
    /\ [][/\ (runs' = runs) => (Phase(pc') >= Phase(pc))
          /\ (calls' # calls /\ runs' = runs) => (pc = "batch" /\ pc' = "call")
          /\ (pc = "commit" /\ pc' # pc) => (pc' = "done")
          /\ (pc # "done" /\ Cancelled') => (pc \in {"chunk", "batch"})]_vars

RunWentThroughAllPhases ==
    /\ pc = "done"
    /\ result = "True"
    /\ Len(calls) = 2
    /\ translated = Range(feature_ids)
    /\ final_count = initial_count

\* C16: when the credential or the endpoint of the selected provider is
\* missing, starting a translation sends no request, creates no task, and
\* tells the user of the failure instead of reporting the translation as
\* started
ConfigurationErrorIsSurfaced ==
    m_last.raised = "not configured" =>
        /\ m_last.requests = 0
        /\ ~m_last.created
        /\ m_last.dialog # "Translation Started"

\* C18: no task starts, writes, commits or rolls back an edit session that
\* another task, still running, opened on the layer
OneTaskPerEditSession == m_foreign = {}

\* C20: a complete request for any of the four providers of the combo box,
\* with the provider configured and reachable, leaves a task started with
\* the adapter of that provider
EveryProviderStartsATask ==
    (/\ m_last.dialog = "Translation Started"
     /\ m_last.raised \notin {"not configured", "no connection"})
        => m_last.created

\* C21: the progress reported after a processed batch is translated_count
\* over total_features of the snapshot; during a run it never decreases, and
\* it stands at completion exactly when every feature of the snapshot has
\* been marked translated
ProgressFollowsTranslatedCount ==
    /\ [](progress # NoProgress =>
            /\ progress = <<translated_count, total_features>>
            /\ translated_count = Cardinality(translated)
            /\ total_features = Len(feature_ids)
            /\ total_features > 0
            /\ (progress[1] = progress[2] <=> translated = Range(feature_ids)))
    /\ [](total_features > 0 /\ translated = Range(feature_ids)
            => progress[1] = progress[2])
    /\ [][runs' = runs =>
            progress'[1] * progress[2] >= progress[1] * progress'[2]]_vars

\* a run of several batches that ended with full progress
FullProgressAfterTwoBatches ==
    /\ pc = "done"
    /\ Len(calls) >= 2
    /\ total_features >= 2
    /\ progress = <<total_features, total_features>>

\* C22: once run is past the creation of the target field (lines 510-523),
\* the target field is a field of the layer, and a field that was there
\* before still is, with the values it had
TargetFieldExistsAfterPreparing ==
    pc = "snapshot" =>
        /\ TargetIdxValid
        /\ hasTarget0 => (hasTarget /\ target = target0 /\ buffer = NoBuffer)

\* C23: remove_columns_with_null_percentage deletes the field exactly when
\* null_count * 100 >= threshold * feature_count, and deletes nothing on a
\* layer without features
FieldDeletedIffOverThreshold ==
    (n_pc = "done" /\ n_vector /\ n_has_field) =>
        /\ Len(n_values) = 0 => ~n_deleted
        /\ Len(n_values) > 0 =>
              (n_deleted <=>
                  NullPercentageExact(
                      Cardinality({f \in 1..Len(n_values) : IsNullValue(n_values[f])}),
                      Len(n_values), n_threshold))

\* C24: in every state of run no snapshot feature is both marked translated
\* and in failed_features, translated_count is the number of features
\* marked translated, and translated_count + len(failed_features) is at
\* most total_features
CountersPartitionSnapshot ==
    /\ translated \cap Range(failed_features) = {}
    /\ translated_count = Cardinality(translated)
    /\ translated_count >= 0
    /\ pc \notin {"start", "snapshot"} =>
          translated_count + Len(failed_features) <= total_features

\* C25: after a call of the service raised an error with '403' in its text,
\* run has returned False with the authentication exception recorded, the
\* edit session is rolled back, the committed target values are those of the
\* start of the run, values of earlier batches included, and the failed batch
\* is the last one handed to the service
AuthErrorRollsBackAndStops ==
    exception = "auth" =>
        /\ pc = "done"
        /\ result = "False"
        /\ ~editing
        /\ started = 0
        /\ buffer = NoBuffer
        /\ target = target0
        /\ calls # <<>>
        /\ LET last == calls[Len(calls)]
           IN  /\ Len(failed_features) >= Len(last)
               /\ SubSeq(failed_features, Len(failed_features) - Len(last) + 1,
                         Len(failed_features)) = last

\* an authentication error on a later batch, after values were written
AuthErrorAfterTranslatedBatch ==
    /\ exception = "auth"
    /\ pc = "done"
    /\ Len(calls) >= 2
    /\ translated # {}

URaised == IF u_service = "direct" THEN "raised" ELSE "False"

\* C27: run hands at most one batch to the service for every batch of the
\* snapshot and always returns; translate_with_ollama makes at most
\* 1 + max_retries requests for a batch and always leaves the retry loop of a
\* batch, with the translations of the batch or by raising
RunAndRetryLoopTerminate ==
    /\ [](Len(calls) <= ExpectedBatches(total_features, RunBatchSize))
    /\ [](u_attempts <= max_retries + 1)
    /\ (pc = "start") ~> (pc = "done" /\ result \in {"True", "False"})
    /\ (u_pc = "try") ~> (u_pc = "ollama" \/ u_return = URaised)

\* a run that ended after two batches, one call for each
RunEndedAfterTwoBatches ==
    /\ pc = "done"
    /\ result = "True"
    /\ Len(calls) = 2
    /\ ExpectedBatches(total_features, RunBatchSize) = 2

\* every feature is blank, matches a skip value or is already translated,
\* and the loop of the snapshot can read the features
NothingToTranslate ==
    /\ \A f \in 1..Len(source) : ShouldSkipText(source[f], Visible(f))
    /\ TargetIdxValid \/ Len(source) = 0

\* C28: when no feature is taken into the snapshot, run returns True from the
\* snapshot, every feature skipped, without a call of the service, without
\* starting an edit session and without a change to the layer; up to the
\* snapshot a run has called no service and changed no value
EmptySnapshotReturnsTrueUntouched ==
    /\ [][(pc = "snapshot" /\ pc' # pc /\ NothingToTranslate) =>
             /\ pc' = "done"
             /\ result' = "True"
             /\ exception' = "none"
             /\ total_features' = 0
             /\ feature_ids' = <<>>
             /\ Len(skipped_features') = Len(source)
             /\ UNCHANGED <<layerVars, calls, started>>
             /\ UNCHANGED <<translated, translated_count, failed_features>>
         ]_vars
    /\ [][(pc' = "done" /\ pc # "done" /\ result' = "True"
              /\ total_features' = 0) =>
             (pc = "snapshot" /\ NothingToTranslate)]_vars
    /\ [](pc \in {"start", "snapshot"} =>
             /\ calls = <<>>
             /\ started = 0
             /\ target = target0
             /\ translated = {})
    /\ [][(pc \in {"start", "snapshot"}) =>
             (UNCHANGED <<source, target, buffer>>)]_vars

\* a run that returned True with nothing to translate on a layer of two
\* features that has the target field
EmptySnapshotOfTwoFeatures ==
    /\ pc = "done"
    /\ result = "True"
    /\ total_features = 0
    /\ Len(skipped_features) = 2
    /\ hasTarget
    /\ calls = <<>>

\* every listed operation reported success and none raised
AllOperationsSucceeded ==
    \A k \in 1..Len(c_reports) : c_reports[k] = "success"

\* C29: when clean_layer has returned for a vector layer, the session was
\* ended with commitChanges exactly when every operation reported success
\* and none raised, otherwise with rollBack and the result False, and the
\* layer is not in edit mode
CommitIffAllOperationsSucceeded ==
    (c_pc = "done" /\ c_vector) =>
        /\ (c_end = "commit") <=> AllOperationsSucceeded
        /\ (c_end # "commit") => (c_end = "rollback" /\ c_return = "False")
        /\ ~c_editing

\* the value of the field written to before find_and_replace_values wrote
Untouched(f) == IF f_new_column THEN NULL ELSE f_source[f]

\* C30: when find_and_replace_values has returned, a feature whose extracted
\* and stripped source value is not a key of the lookup table was not
\* written and has the value it had, and the count returned is the number of
\* features whose value was written
OnlyLookupKeysReplacedAndCounted ==
    f_pc = "done" =>
        /\ \A f \in 1..Len(f_source) :
              ~InLookup(Extracted(f_source[f])) =>
                  (f \notin f_written /\ f_values[f] = Untouched(f))
        /\ f_return = Cardinality(f_written)

====
